---- MODULE Spec2Model ----
(***************************************************************************)
(* A state-machine model of the gb-core emulator core: the CPU (Cpu::step),*)
(* the memory bus (Bus::read8 / Bus::write8 / Bus::tick) and the           *)
(* peripherals the bus ticks (timer, OAM DMA, PPU, HDMA, serial).          *)
(*                                                                         *)
(* The machine is held in two records, cpu and bus, with the fields of the *)
(* Rust structs.  Every Rust method is an operator from a machine (or a    *)
(* component) to the machine after the call; an action applies one or      *)
(* more of them, as the caller in the source does.  Byte arrays (wram,     *)
(* vram, oam, io, hram, rom) are functions from the indices that hold a    *)
(* non-zero byte to that byte: every other index reads 0, as in the        *)
(* zero-filled arrays of Bus::new.                                         *)
(***************************************************************************)
EXTENDS Integers, Sequences, FiniteSets, TLC

VARIABLES cpu, bus, last, hist

vars == <<cpu, bus, last, hist>>

----------------------------------------------------------------------------
(* Fixed-width arithmetic.                                                 *)

U8(x) == x % 256

U16(x) == x % 65536

Min(a, b) == IF a < b THEN a ELSE b

Bit(x, n) == (x \div (2 ^ n)) % 2

TestBit(x, n) == Bit(x, n) = 1

RECURSIVE BitAnd(_, _)
BitAnd(a, b) ==
    IF a = 0 \/ b = 0 THEN 0
    ELSE (IF a % 2 = 1 /\ b % 2 = 1 THEN 1 ELSE 0) + 2 * BitAnd(a \div 2, b \div 2)

RECURSIVE BitOr(_, _)
BitOr(a, b) ==
    IF a = 0 THEN b
    ELSE IF b = 0 THEN a
    ELSE (IF a % 2 = 1 \/ b % 2 = 1 THEN 1 ELSE 0) + 2 * BitOr(a \div 2, b \div 2)

RECURSIVE BitXor(_, _)
BitXor(a, b) ==
    IF a = 0 THEN b
    ELSE IF b = 0 THEN a
    ELSE (IF (a % 2) # (b % 2) THEN 1 ELSE 0) + 2 * BitXor(a \div 2, b \div 2)

(* x & !mask on a byte.                                                    *)
ClearBits(x, mask) == x - BitAnd(x, mask)

TrailingZeros(x) == CHOOSE n \in 0..8 : (IF x = 0 THEN n = 8 ELSE Bit(x, n) = 1 /\ \A k \in 0..(n - 1) : Bit(x, k) = 0)

----------------------------------------------------------------------------
(* Byte arrays.                                                            *)

EmptyMem == [i \in {} |-> 0]

Get(mem, i) == IF i \in DOMAIN mem THEN mem[i] ELSE 0

Put(mem, i, v) ==
    IF v = 0 THEN [x \in (DOMAIN mem) \ {i} |-> mem[x]]
    ELSE [x \in (DOMAIN mem) \cup {i} |-> IF x = i THEN v ELSE mem[x]]

----------------------------------------------------------------------------
(* interrupt.rs                                                            *)

IntVBlank == 0
IntLcdStat == 1
IntTimer == 2
IntSerial == 3
IntJoypad == 4

InterruptBit(i) == 2 ^ i

InterruptVector(i) == 64 + 8 * i

(* A faulty variant of from_pending_mask in which the highest bit wins.     *)
from_pending_mask_highest(pending) ==
    IF pending = 0 THEN -1
    ELSE CHOOSE n \in 0..7 : Bit(pending, n) = 1 /\ \A k \in (n + 1)..7 : Bit(pending, k) = 0

(* Interrupt::from_pending_mask: the index of the lowest set bit, or -1    *)
(* for None.                                                               *)
from_pending_mask(pending) ==
    IF pending = 0 THEN -1
    ELSE IF TrailingZeros(pending) <= 4 THEN TrailingZeros(pending) ELSE -1

pending_mask(ie, iflag) == BitAnd(BitAnd(ie, iflag), 31)

----------------------------------------------------------------------------
(* timer.rs                                                                *)

TimerNew == [counter |-> 0, tima |-> 0, tma |-> 0, tac |-> 0]

TimerBitOf(code) == CASE code = 0 -> 9 [] code = 1 -> 3 [] code = 2 -> 5 [] code = 3 -> 7

input_bit(counter, tac) ==
    IF BitAnd(tac, 4) = 0 THEN FALSE
    ELSE TestBit(counter, TimerBitOf(tac % 4))

(* Variant: the overflow wraps to 0 and requests nothing.                  *)
inc_tima_wrapping(b) ==
    [b EXCEPT !.timer.tima = (b.timer.tima + 1) % 256]

(* The timer methods take and return the bus: they update bus.timer and,   *)
(* on overflow, bus.iflag (the &mut u8 the bus passes in).                 *)
inc_tima(b) ==
    IF b.timer.tima = 255
    THEN [b EXCEPT !.timer.tima = b.timer.tma,
                   !.iflag = BitOr(b.iflag, InterruptBit(IntTimer))]
    ELSE [b EXCEPT !.timer.tima = b.timer.tima + 1]

read_div(b) == b.timer.counter \div 256

(* Variant: the write leaves the counter running.                          *)
write_div_ignored(b) == b

(* Variant: the reset of the counter never clocks TIMA.                    *)
write_div_no_edge(b) ==
    [b EXCEPT !.timer.counter = 0]

write_div(b) ==
    LET old == input_bit(b.timer.counter, b.timer.tac)
        b1 == [b EXCEPT !.timer.counter = 0]
        new == input_bit(0, b.timer.tac)
    IN IF old /\ ~new THEN inc_tima(b1) ELSE b1

write_tac(b, val) ==
    LET old == input_bit(b.timer.counter, b.timer.tac)
        b1 == [b EXCEPT !.timer.tac = BitAnd(val, 7)]
        new == input_bit(b.timer.counter, BitAnd(val, 7))
    IN IF old /\ ~new THEN inc_tima(b1) ELSE b1

(* Variant: TIMA is clocked by the rising edge of the input.              *)
timer_cycle_rising(b) ==
    LET b1 == [b EXCEPT !.timer.counter = U16(b.timer.counter + 1)]
    IN IF ~input_bit(b.timer.counter, b.timer.tac) /\ input_bit(b1.timer.counter, b.timer.tac)
       THEN [b1 EXCEPT !.timer.tima = (b.timer.tima + 1) % 256]
       ELSE b1

timer_cycle(b) ==
    LET old == input_bit(b.timer.counter, b.timer.tac)
        b1 == [b EXCEPT !.timer.counter = U16(b.timer.counter + 1)]
        new == input_bit(b1.timer.counter, b.timer.tac)
    IN IF old /\ ~new THEN inc_tima(b1) ELSE b1

(* Timer::tick: cycle() applied `cycles` times.  The count is halved at    *)
(* each level, and the first half is evaluated (its counter is looked at)  *)
(* before the second, to keep the evaluation shallow.  With TAC bit 2      *)
(* clear input_bit is false in every cycle, so cycle() only counts and the *)
(* calls are taken together.                                               *)
RECURSIVE timer_tick(_, _)
timer_tick(b, cycles) ==
    IF cycles = 0 THEN b
    ELSE IF ~TestBit(b.timer.tac, 2)
    THEN [b EXCEPT !.timer.counter = U16(@ + cycles)]
    ELSE IF cycles = 1 THEN timer_cycle(b)
    ELSE LET half == timer_tick(b, cycles \div 2)
         IN IF half.timer.counter >= 0
            THEN timer_tick(half, cycles - cycles \div 2)
            ELSE half

----------------------------------------------------------------------------
(* dma.rs                                                                  *)

OAM_DMA_BYTES == 160

OAM_DMA_CYCLES_PER_BYTE == 4

OamDmaDefault ==
    [active |-> FALSE, source_base |-> 0, next_byte |-> 0,
     startup_delay |-> 0, cycle_budget |-> 0]

oam_dma_start(d, page) ==
    [active |-> TRUE, source_base |-> page * 256, next_byte |-> 0,
     startup_delay |-> OAM_DMA_CYCLES_PER_BYTE, cycle_budget |-> 0]

InHram(addr) == addr >= 65408 /\ addr <= 65534

(* A faulty variant of blocks_cpu_addr that also lets 0xFFFF through.       *)
blocks_cpu_addr_upto_ie(d, addr) == d.active /\ ~(addr >= 65408)

blocks_cpu_addr(d, addr) == d.active /\ ~InHram(addr)

(* A faulty variant of add_cycles that credits every cycle twice.          *)
add_cycles_twice(d, cycles) ==
    IF ~d.active THEN d ELSE [d EXCEPT !.cycle_budget = d.cycle_budget + 2 * cycles]

add_cycles(d, cycles) ==
    IF ~d.active THEN d ELSE [d EXCEPT !.cycle_budget = d.cycle_budget + cycles]

(* OamDma::pop_transfer: [d |-> the engine after the call, some |-> a copy *)
(* is due, src, dst |-> the copy].                                         *)
pop_transfer(d) ==
    IF ~d.active THEN [d |-> d, some |-> FALSE, src |-> 0, dst |-> 0]
    ELSE
      LET consume == IF d.startup_delay > 0 THEN Min(d.startup_delay, d.cycle_budget) ELSE 0
          d1 == [d EXCEPT !.startup_delay = d.startup_delay - consume,
                          !.cycle_budget = d.cycle_budget - consume]
      IN IF d1.startup_delay > 0 THEN [d |-> d1, some |-> FALSE, src |-> 0, dst |-> 0]
         ELSE IF d1.cycle_budget < OAM_DMA_CYCLES_PER_BYTE
              THEN [d |-> d1, some |-> FALSE, src |-> 0, dst |-> 0]
         ELSE
           LET nb == d1.next_byte + 1
               d2 == [d1 EXCEPT !.cycle_budget = d1.cycle_budget - OAM_DMA_CYCLES_PER_BYTE,
                                !.next_byte = nb]
               d3 == IF nb >= OAM_DMA_BYTES
                     THEN [d2 EXCEPT !.active = FALSE, !.startup_delay = 0, !.cycle_budget = 0]
                     ELSE d2
           IN [d |-> d3, some |-> TRUE,
               src |-> U16(d1.source_base + d1.next_byte), dst |-> d1.next_byte]

----------------------------------------------------------------------------
(* input.rs                                                                *)

JoypadNew == [select |-> 48, state |-> 0]

read_joyp(j) ==
    LET select_buttons == BitAnd(j.select, 32) = 0
        select_directions == BitAnd(j.select, 16) = 0
        dir_nibble == IF select_directions THEN 15 - (j.state % 16) ELSE 15
        btn_nibble == IF select_buttons THEN 15 - ((j.state \div 16) % 16) ELSE 15
    IN 192 + BitAnd(j.select, 48) + BitAnd(dir_nibble, btn_nibble)

write_joyp(j, val) == [j EXCEPT !.select = BitAnd(val, 48)]

----------------------------------------------------------------------------
(* serial.rs                                                               *)

SERIAL_INTERNAL_TRANSFER_CYCLES == 4096

SerialNew == [output |-> <<>>, in_progress |-> FALSE, cycles_remaining |-> 0, pending_byte |-> 0]

IO_SB == 1
IO_SC == 2

(* Serial::start_transfer(byte, &mut io[SC]), with io[SC] already written. *)
start_transfer(b, byte) ==
    LET sc == Get(b.io, IO_SC)
        in_progress == BitAnd(sc, 128) # 0
        internal_clock == BitAnd(sc, 1) # 0
    IN [b EXCEPT !.serial.pending_byte = byte,
                 !.serial.in_progress = in_progress,
                 !.serial.cycles_remaining =
                     IF in_progress /\ internal_clock THEN SERIAL_INTERNAL_TRANSFER_CYCLES ELSE 0,
                 !.io = Put(b.io, IO_SC, BitOr(sc, 128))]

stop_transfer(b) ==
    [b EXCEPT !.serial.in_progress = FALSE,
              !.serial.cycles_remaining = 0,
              !.io = Put(b.io, IO_SC, BitAnd(Get(b.io, IO_SC), 127))]

(* Variant: the byte counts as transferred one cycle early.                *)
serial_tick_early(b, cycles) ==
    IF ~b.serial.in_progress THEN b
    ELSE IF b.serial.cycles_remaining = 0 \/ cycles + 1 >= b.serial.cycles_remaining
    THEN [b EXCEPT !.serial.in_progress = FALSE,
                   !.serial.cycles_remaining = 0,
                   !.io = Put(b.io, IO_SC, BitAnd(Get(b.io, IO_SC), 127)),
                   !.serial.output = Append(b.serial.output, b.serial.pending_byte),
                   !.iflag = BitOr(b.iflag, InterruptBit(IntSerial))]
    ELSE [b EXCEPT !.serial.cycles_remaining = b.serial.cycles_remaining - cycles]

serial_tick(b, cycles) ==
    IF ~b.serial.in_progress THEN b
    ELSE IF b.serial.cycles_remaining = 0 \/ cycles >= b.serial.cycles_remaining
    THEN [b EXCEPT !.serial.in_progress = FALSE,
                   !.serial.cycles_remaining = 0,
                   !.io = Put(b.io, IO_SC, BitAnd(Get(b.io, IO_SC), 127)),
                   !.serial.output = Append(b.serial.output, b.serial.pending_byte),
                   !.iflag = BitOr(b.iflag, InterruptBit(IntSerial))]
    ELSE [b EXCEPT !.serial.cycles_remaining = b.serial.cycles_remaining - cycles]

----------------------------------------------------------------------------
(* ppu/ppu.rs: the mode state machine.  The framebuffer and the scanline   *)
(* renderer change no timing state and are left out.                       *)

IO_LCDC == 64
IO_STAT == 65
IO_LY == 68
IO_LYC == 69
IO_DMA == 70

IF_VBLANK == 1
IF_STAT == 2

DotsPerLine == 456
Mode3Dot == 80
Mode0Dot == 252
VBlankLine == 144
LastLine == 153
EnableDots == 4

(* The framebuffer is kept as what decides its latest line: the line and   *)
(* the OAM that render_scanline was last given (-1 and no OAM when clear). *)
ClearFramebuffer == [ly |-> -1, oam |-> EmptyMem]

render_scanline(b) == [ly |-> b.ppu.ly, oam |-> b.oam]

PpuNew ==
    [framebuffer |-> ClearFramebuffer,
     frame_ready |-> FALSE, dots |-> 0, ly |-> 0, mode |-> 0,
     lcd_enabled |-> FALSE, prev_coincidence |-> FALSE]

reset_ly(p) ==
    [p EXCEPT !.dots = 0, !.ly = 0, !.mode = IF p.lcd_enabled THEN 2 ELSE 0,
              !.prev_coincidence = FALSE, !.frame_ready = FALSE]

(* dots never passes the dot of the next event, so the u32 subtraction    *)
(* does not wrap.                                                        *)
cycles_to_next_event(p) ==
    IF p.ly >= VBlankLine THEN (DotsPerLine - p.dots)
    ELSE IF p.mode = 2 THEN (Mode3Dot - p.dots)
    ELSE IF p.mode = 3 THEN (Mode0Dot - p.dots)
    ELSE (DotsPerLine - p.dots)

(* Variant: the lines of VBlank are spent in mode 0.                       *)
set_mode_hblank_for_vblank(b, mode) ==
    LET m == IF mode = 1 THEN 0 ELSE mode
    IN IF m = b.ppu.mode THEN b
       ELSE [b EXCEPT !.ppu.mode = m,
                      !.iflag = IF \/ m = 0 /\ BitAnd(Get(b.io, IO_STAT), 8) # 0
                                   \/ m = 2 /\ BitAnd(Get(b.io, IO_STAT), 32) # 0
                                THEN BitOr(b.iflag, IF_STAT) ELSE b.iflag]

set_mode(b, mode) ==
    IF mode = b.ppu.mode THEN b
    ELSE
      LET stat == Get(b.io, IO_STAT)
          raise == \/ mode = 0 /\ BitAnd(stat, 8) # 0
                   \/ mode = 1 /\ BitAnd(stat, 16) # 0
                   \/ mode = 2 /\ BitAnd(stat, 32) # 0
      IN [b EXCEPT !.ppu.mode = mode,
                   !.iflag = IF raise THEN BitOr(b.iflag, IF_STAT) ELSE b.iflag]

sync_registers(b) ==
    LET io1 == Put(b.io, IO_LY, b.ppu.ly)
        coincidence == b.ppu.ly = Get(io1, IO_LYC)
        raise == coincidence /\ ~b.ppu.prev_coincidence /\ BitAnd(Get(io1, IO_STAT), 64) # 0
        stat == BitAnd(Get(io1, IO_STAT), 120) + (b.ppu.mode % 4) + (IF coincidence THEN 4 ELSE 0)
    IN [b EXCEPT !.io = Put(io1, IO_STAT, stat),
                 !.iflag = IF raise THEN BitOr(b.iflag, IF_STAT) ELSE b.iflag,
                 !.ppu.prev_coincidence = coincidence]

(* Variant: the frame is reported at the wrap to line 0, not at line 144.  *)
ppu_event_frame_at_wrap(b0, step) ==
    LET b1 == [b0 EXCEPT !.ppu.dots = b0.ppu.dots + step]
        b2 == IF b1.ppu.ly < VBlankLine
              THEN IF b1.ppu.mode = 2 /\ b1.ppu.dots = Mode3Dot
                   THEN set_mode([b1 EXCEPT !.ppu.framebuffer = render_scanline(b1)], 3)
                   ELSE IF b1.ppu.mode = 3 /\ b1.ppu.dots = Mode0Dot THEN set_mode(b1, 0)
                   ELSE b1
              ELSE b1
    IN IF b2.ppu.dots = DotsPerLine
       THEN LET ly == U8(b2.ppu.ly + 1)
                b3 == [b2 EXCEPT !.ppu.dots = 0, !.ppu.ly = ly]
                b4 == IF ly = VBlankLine
                      THEN set_mode([b3 EXCEPT !.iflag = BitOr(b3.iflag, IF_VBLANK)], 1)
                      ELSE IF ly > LastLine
                      THEN set_mode([b3 EXCEPT !.ppu.ly = 0, !.ppu.frame_ready = TRUE], 2)
                      ELSE IF ly >= VBlankLine THEN set_mode(b3, 1)
                      ELSE set_mode(b3, 2)
            IN sync_registers(b4)
       ELSE b2

(* One iteration of the while loop of Ppu::tick, having advanced by step.  *)
ppu_event(b0, step) ==
    LET b1 == [b0 EXCEPT !.ppu.dots = b0.ppu.dots + step]
        b2 == IF b1.ppu.ly < VBlankLine
              THEN IF b1.ppu.mode = 2 /\ b1.ppu.dots = Mode3Dot
                   THEN set_mode([b1 EXCEPT !.ppu.framebuffer = render_scanline(b1)], 3)
                   ELSE IF b1.ppu.mode = 3 /\ b1.ppu.dots = Mode0Dot THEN set_mode(b1, 0)
                   ELSE b1
              ELSE b1
    IN IF b2.ppu.dots = DotsPerLine
       THEN LET ly == U8(b2.ppu.ly + 1)
                b3 == [b2 EXCEPT !.ppu.dots = 0, !.ppu.ly = ly]
                b4 == IF ly = VBlankLine
                      THEN set_mode([b3 EXCEPT !.ppu.frame_ready = TRUE,
                                               !.iflag = BitOr(b3.iflag, IF_VBLANK)], 1)
                      ELSE IF ly > LastLine THEN set_mode([b3 EXCEPT !.ppu.ly = 0], 2)
                      ELSE IF ly >= VBlankLine THEN set_mode(b3, 1)
                      ELSE set_mode(b3, 2)
            IN sync_registers(b4)
       ELSE b2

RECURSIVE ppu_loop(_, _)
ppu_loop(b, cycles) ==
    IF cycles <= 0 THEN b
    ELSE LET step == Min(cycles_to_next_event(b.ppu), cycles)
         IN ppu_loop(ppu_event(b, step), cycles - step)

ppu_tick(b, cycles) ==
    IF BitAnd(Get(b.io, IO_LCDC), 128) = 0
    THEN sync_registers([b EXCEPT !.ppu = [framebuffer |-> IF b.ppu.lcd_enabled
                                                           THEN ClearFramebuffer
                                                           ELSE b.ppu.framebuffer,
                                           frame_ready |-> FALSE, dots |-> 0, ly |-> 0,
                                           mode |-> 0, lcd_enabled |-> FALSE,
                                           prev_coincidence |-> FALSE]])
    ELSE
      LET b1 == IF ~b.ppu.lcd_enabled
                THEN [b EXCEPT !.ppu.lcd_enabled = TRUE, !.ppu.dots = EnableDots,
                               !.ppu.ly = 0, !.ppu.mode = 2,
                               !.ppu.prev_coincidence = FALSE]
                ELSE b
      IN sync_registers(ppu_loop(b1, cycles))

----------------------------------------------------------------------------
(* apu/channels/square.rs, wave.rs, noise.rs                               *)
(*                                                                         *)
(* The four channels are records of one shape; kind tells which Rust       *)
(* struct a record stands for ("sq1" is SquareChannel::new(true), "sq2" is *)
(* SquareChannel::new(false)).  nrx0..nrx4 are the register bytes: sweep,  *)
(* duty_length, envelope, freq_lo, freq_hi of a square channel,            *)
(* nr30..nr34 of the wave channel and nr41..nr44 of the noise channel.     *)
(* pos is duty_step (square) or sample_index (wave).  A field a struct     *)
(* does not have keeps its initial value.                                  *)

LFSR_RESET == 32767

ChannelNew(kind) ==
    [kind |-> kind, enabled |-> FALSE, dac_enabled |-> FALSE,
     nrx0 |-> 0, nrx1 |-> 0, nrx2 |-> 0, nrx3 |-> 0, nrx4 |-> 0,
     length_counter |-> 0, length_frozen |-> FALSE, timer |-> 1, pos |-> 0,
     volume |-> 0, env_timer |-> 0,
     sweep_timer |-> 0, sweep_enabled |-> FALSE, sweep_shadow_freq |-> 0,
     sweep_negate_used |-> FALSE,
     lfsr |-> IF kind = "noise" THEN LFSR_RESET ELSE 0,
     sample_buffer |-> 0, wave_ram_latch_index |-> 0,
     wave_ram_latch_pending_index |-> 0, wave_ram_latch_delay |-> 0,
     wave_ram |-> EmptyMem]

IsSquare(ch) == ch.kind \in {"sq1", "sq2"}

(* The reload value of an expired length counter (trigger).                *)
FullLength(ch) == IF ch.kind = "wave" THEN 256 ELSE 64

frequency(ch) == (ch.nrx4 % 8) * 256 + ch.nrx3

NoiseDivisors == <<8, 16, 32, 48, 64, 80, 96, 112>>

(* period() of each channel; the noise period is a u16 shift.              *)
period(ch) ==
    CASE IsSquare(ch) -> (2048 - frequency(ch)) * 4
      [] ch.kind = "wave" -> (2048 - frequency(ch)) * 2
      [] OTHER -> U16(NoiseDivisors[(ch.nrx3 % 8) + 1] * (2 ^ (ch.nrx3 \div 16)))

envelope_period(ch) == IF ch.nrx2 % 8 = 0 THEN 8 ELSE ch.nrx2 % 8

sweep_period(ch) == IF (ch.nrx0 \div 16) % 8 = 0 THEN 8 ELSE (ch.nrx0 \div 16) % 8

(* sweep_calculate: the channel after the call and the Option it returns.  *)
sweep_calculate(ch) ==
    LET delta == ch.sweep_shadow_freq \div (2 ^ (ch.nrx0 % 8))
        negate == TestBit(ch.nrx0, 3)
        new_freq == IF negate THEN U16(65536 + ch.sweep_shadow_freq - delta)
                    ELSE U16(ch.sweep_shadow_freq + delta)
        used == [ch EXCEPT !.sweep_negate_used = @ \/ negate]
    IN IF new_freq > 2047
       THEN [ch |-> [used EXCEPT !.enabled = FALSE], some |-> FALSE, freq |-> 0]
       ELSE [ch |-> used, some |-> TRUE, freq |-> new_freq]

set_frequency(ch, freq) ==
    [ch EXCEPT !.nrx3 = freq % 256, !.nrx4 = (@ - (@ % 8)) + ((freq \div 256) % 8)]

clock_length_internal(ch, is_extra_clock, cgb_mode) ==
    IF ~TestBit(ch.nrx4, 6) THEN ch
    ELSE IF ch.length_counter > 0
    THEN IF ch.length_counter = 1
         THEN [ch EXCEPT !.length_counter = 0, !.enabled = FALSE,
                         !.length_frozen = @ \/ (is_extra_clock /\ cgb_mode)]
         ELSE [ch EXCEPT !.length_counter = @ - 1]
    ELSE ch

(* trigger() of the three channel types.                                   *)
trigger(ch, cgb_mode) ==
    LET loaded == [ch EXCEPT !.length_counter = IF @ = 0 THEN FullLength(ch) ELSE @,
                             !.length_frozen = FALSE,
                             !.enabled = ch.dac_enabled]
        wave_timer == LET t == (period(ch) - (period(ch) % 4)) + (ch.timer % 4)
                      IN IF ~cgb_mode \/ t = 0 THEN period(ch) ELSE t
        swept(s) == IF s.nrx0 % 8 # 0 THEN sweep_calculate(s).ch ELSE s
    IN CASE ch.kind = "wave" ->
              [loaded EXCEPT !.timer = wave_timer, !.pos = 0,
                             !.wave_ram_latch_index = 0,
                             !.wave_ram_latch_pending_index = 0,
                             !.wave_ram_latch_delay = 0]
         [] ch.kind = "noise" ->
              [loaded EXCEPT !.timer = period(ch), !.env_timer = envelope_period(ch),
                             !.volume = ch.nrx2 \div 16, !.lfsr = LFSR_RESET]
         [] ch.kind = "sq2" ->
              [loaded EXCEPT !.timer = period(ch), !.pos = 0,
                             !.volume = ch.nrx2 \div 16,
                             !.env_timer = envelope_period(ch)]
         [] OTHER ->
              swept([loaded EXCEPT !.timer = period(ch), !.pos = 0,
                                   !.volume = ch.nrx2 \div 16,
                                   !.env_timer = envelope_period(ch),
                                   !.sweep_shadow_freq = frequency(ch),
                                   !.sweep_timer = sweep_period(ch),
                                   !.sweep_enabled = (ch.nrx0 \div 16) % 8 # 0
                                                     \/ ch.nrx0 % 8 # 0,
                                   !.sweep_negate_used = FALSE])

(* A faulty variant of write_nrx4 that gives the extra length clock after  *)
(* the trigger instead of before it.                                       *)
write_nrx4_clock_after_trigger(ch, value, frame_seq_step, cgb_mode) ==
    LET extra == frame_seq_step % 2 = 1 /\ ~TestBit(ch.nrx4, 6) /\ TestBit(value, 6)
        stored == [ch EXCEPT !.nrx4 = BitAnd(value, 199)]
        triggered == IF TestBit(value, 7) THEN trigger(stored, cgb_mode) ELSE stored
    IN IF extra THEN clock_length_internal(triggered, TRUE, cgb_mode) ELSE triggered

(* write_nr14 (square; NR14 and NR24), write_nr34 (wave) and write_nr44    *)
(* (noise): the three bodies are the same but for the trigger they call.   *)
write_nrx4(ch, value, frame_seq_step, cgb_mode) ==
    LET odd == frame_seq_step % 2 = 1
        new_len_en == TestBit(value, 6)
        want_trigger == TestBit(value, 7)
        extra == odd /\ ~TestBit(ch.nrx4, 6) /\ new_len_en
        stored == [ch EXCEPT !.nrx4 = BitAnd(value, 199)]
        clocked == IF extra THEN clock_length_internal(stored, TRUE, cgb_mode) ELSE stored
        extra_froze == extra /\ cgb_mode /\ clocked.length_frozen
        triggered == IF want_trigger THEN trigger(clocked, cgb_mode) ELSE clocked
    IN IF odd /\ want_trigger /\ new_len_en /\ cgb_mode
          /\ (ch.length_frozen \/ extra_froze)
       THEN clock_length_internal(triggered, FALSE, cgb_mode)
       ELSE triggered

(* write_duty_length / write_nr41 (64 - low six bits) and write_nr31       *)
(* (256 - value).                                                          *)
write_nrx1(ch, value) ==
    [ch EXCEPT !.nrx1 = value,
               !.length_counter = IF ch.kind = "wave" THEN 256 - value
                                  ELSE 64 - (value % 64)]

(* write_envelope / write_nr42 (DAC on when the high five bits are not 0)  *)
(* and write_nr32 (a plain store).                                         *)
write_nrx2(ch, value) ==
    IF ch.kind = "wave" THEN [ch EXCEPT !.nrx2 = value]
    ELSE [ch EXCEPT !.nrx2 = value, !.dac_enabled = value \div 8 # 0,
                    !.enabled = @ /\ value \div 8 # 0]

(* write_sweep (channel 1 only) and write_nr30.                            *)
write_nrx0(ch, value) ==
    CASE ch.kind = "sq1" ->
           [ch EXCEPT !.nrx0 = value,
                      !.enabled = @ /\ ~(TestBit(ch.nrx0, 3) /\ ~TestBit(value, 3)
                                         /\ ch.sweep_negate_used)]
      [] ch.kind = "wave" ->
           [ch EXCEPT !.nrx0 = value, !.dac_enabled = TestBit(value, 7),
                      !.enabled = @ /\ TestBit(value, 7)]
      [] OTHER -> ch

(* A faulty variant of powered_register_clear that clears the length       *)
(* counter on every machine.                                               *)
powered_register_clear_length(ch, cgb_mode) ==
    [ChannelNew(ch.kind) EXCEPT !.wave_ram = ch.wave_ram]

powered_register_clear(ch, cgb_mode) ==
    [ChannelNew(ch.kind) EXCEPT
        !.nrx1 = IF cgb_mode THEN 0
                 ELSE IF ch.kind = "wave" THEN ch.nrx1 ELSE ch.nrx1 % 64,
        !.length_counter = IF cgb_mode THEN 0 ELSE ch.length_counter,
        !.wave_ram = ch.wave_ram]

clock_envelope(ch) ==
    IF ch.nrx2 % 8 = 0 THEN ch
    ELSE IF ch.env_timer > 1 THEN [ch EXCEPT !.env_timer = @ - 1]
    ELSE [ch EXCEPT !.env_timer = envelope_period(ch),
                    !.volume = IF TestBit(ch.nrx2, 3)
                               THEN (IF @ < 15 THEN @ + 1 ELSE @)
                               ELSE (IF @ > 0 THEN @ - 1 ELSE @)]

clock_sweep(ch) ==
    IF ch.kind # "sq1" \/ ~ch.sweep_enabled THEN ch
    ELSE IF ch.sweep_timer > 1 THEN [ch EXCEPT !.sweep_timer = @ - 1]
    ELSE LET reloaded == [ch EXCEPT !.sweep_timer = sweep_period(ch)]
             again(r) == IF r.some /\ ch.nrx0 % 8 # 0
                         THEN sweep_calculate(
                                  set_frequency([r.ch EXCEPT !.sweep_shadow_freq = r.freq],
                                                r.freq)).ch
                         ELSE r.ch
         IN IF (ch.nrx0 \div 16) % 8 = 0 THEN reloaded
            ELSE again(sweep_calculate(reloaded))

(* One clock of the noise channel's shift register (tick_timer, noise.rs). *)
lfsr_clock(l, nr43) ==
    LET x == (l + (l \div 2)) % 2
        shifted == (l \div 2) + x * 16384
    IN IF TestBit(nr43, 3) THEN shifted - Bit(shifted, 6) * 64 + x * 64 ELSE shifted

RECURSIVE lfsr_clocks(_, _, _)
lfsr_clocks(l, nr43, k) ==
    IF k = 0 THEN l
    ELSE IF k = 1 THEN lfsr_clock(l, nr43)
    ELSE LET half == lfsr_clocks(l, nr43, k \div 2)
         IN IF half >= 0 THEN lfsr_clocks(half, nr43, k - (k \div 2)) ELSE half

(* n calls of tick_timer on one channel.  The timer counts down to 1 and   *)
(* the next call reloads it with period() and advances the channel: the    *)
(* calls up to the first reload, the whole periods after it and the        *)
(* remainder are taken in one step each.                                   *)
tick_timer(ch, n) ==
    LET first == IF ch.timer > 1 THEN ch.timer ELSE 1
        p == period(ch)
        eff == IF p > 1 THEN p ELSE 1
        k == 1 + ((n - first) \div eff)
        r == (n - first) % eff
        index == (ch.pos + k) % 32
        aged == IF ch.wave_ram_latch_delay > n THEN ch.wave_ram_latch_delay - n ELSE 0
        due(m) == ch.wave_ram_latch_delay > 0 /\ m >= ch.wave_ram_latch_delay
    IN IF n < first
       THEN IF ch.kind = "wave"
            THEN [ch EXCEPT !.timer = @ - n, !.wave_ram_latch_delay = aged,
                            !.wave_ram_latch_index =
                                IF due(n) THEN ch.wave_ram_latch_pending_index ELSE @]
            ELSE [ch EXCEPT !.timer = @ - n]
       ELSE CASE IsSquare(ch) -> [ch EXCEPT !.timer = p - r, !.pos = (@ + k) % 8]
              [] ch.kind = "noise" ->
                   [ch EXCEPT !.timer = p - r, !.lfsr = lfsr_clocks(@, ch.nrx3, k)]
              [] OTHER ->
                   [ch EXCEPT !.timer = p - r, !.pos = index,
                              !.sample_buffer = Get(ch.wave_ram, index \div 2),
                              !.wave_ram_latch_pending_index = index \div 2,
                              !.wave_ram_latch_delay = IF r >= 2 THEN 0 ELSE 2 - r,
                              !.wave_ram_latch_index =
                                  IF r >= 2 THEN index \div 2
                                  ELSE IF k >= 2 THEN ((index + 31) % 32) \div 2
                                  ELSE IF due(first) THEN ch.wave_ram_latch_pending_index
                                  ELSE @]

read_wave_ram(ch, index, cgb_mode) ==
    IF ch.enabled
    THEN IF cgb_mode THEN Get(ch.wave_ram, ch.wave_ram_latch_index) ELSE 255
    ELSE Get(ch.wave_ram, index)

write_wave_ram(ch, index, value, cgb_mode) ==
    IF ch.enabled
    THEN IF cgb_mode
         THEN [ch EXCEPT !.wave_ram = Put(@, ch.wave_ram_latch_index, value),
                         !.sample_buffer = IF ch.wave_ram_latch_index = ch.pos \div 2
                                           THEN value ELSE @]
         ELSE ch
    ELSE [ch EXCEPT !.wave_ram = Put(@, index, value)]

----------------------------------------------------------------------------
(* apu/apu.rs                                                              *)
(*                                                                         *)
(* The sample accumulator and the sample buffer (sample_accum, samples)    *)
(* are left out: they feed the audio output only.                          *)

FRAME_SEQUENCER_PERIOD_CYCLES == 8192

NR10 == 65296
NR11 == 65297
NR12 == 65298
NR13 == 65299
NR14 == 65300
NR21 == 65302
NR22 == 65303
NR23 == 65304
NR24 == 65305
NR30 == 65306
NR31 == 65307
NR32 == 65308
NR33 == 65309
NR34 == 65310
NR41 == 65312
NR42 == 65313
NR43 == 65314
NR44 == 65315
NR50 == 65316
NR51 == 65317
NR52 == 65318
WAVE_RAM_START == 65328
WAVE_RAM_END == 65343

(* Apu::new followed by set_cgb_mode, as in Bus::new.                      *)
ApuNew(cgb_mode) ==
    [powered |-> TRUE, cgb_mode |-> cgb_mode,
     ch1 |-> ChannelNew("sq1"), ch2 |-> ChannelNew("sq2"),
     ch3 |-> ChannelNew("wave"), ch4 |-> ChannelNew("noise"),
     nr50 |-> 0, nr51 |-> 0, frame_seq_step |-> 0, frame_seq_counter |-> 0]

(* Called only from tick_cycle, where the APU is powered.                  *)
(* A faulty variant that clocks the envelopes on steps 3 and 7.             *)
clock_frame_sequencer_env_twice(a) ==
    LET step == a.frame_seq_step
        len(ch) == IF a.powered /\ step % 2 = 0
                   THEN clock_length_internal(ch, FALSE, a.cgb_mode) ELSE ch
        swp(ch) == IF a.powered /\ step \in {2, 6} THEN clock_sweep(ch) ELSE ch
        env(ch) == IF a.powered /\ step \in {3, 7} THEN clock_envelope(ch) ELSE ch
    IN [a EXCEPT !.frame_seq_step = (step + 1) % 8,
                 !.ch1 = env(swp(len(@))), !.ch2 = env(len(@)),
                 !.ch3 = len(@), !.ch4 = env(len(@))]

clock_frame_sequencer(a) ==
    LET step == a.frame_seq_step
        len(ch) == IF a.powered /\ step % 2 = 0
                   THEN clock_length_internal(ch, FALSE, a.cgb_mode) ELSE ch
        swp(ch) == IF a.powered /\ step \in {2, 6} THEN clock_sweep(ch) ELSE ch
        env(ch) == IF a.powered /\ step = 7 THEN clock_envelope(ch) ELSE ch
    IN [a EXCEPT !.frame_seq_step = (step + 1) % 8,
                 !.ch1 = env(swp(len(@))), !.ch2 = env(len(@)),
                 !.ch3 = len(@), !.ch4 = env(len(@))]

(* Apu::tick: cycles calls of tick_cycle, taken one frame-sequencer period *)
(* at a time.  In each cycle the channel timers tick before the sequencer. *)
RECURSIVE apu_tick(_, _)
apu_tick(a, cycles) ==
    LET seg == Min(FRAME_SEQUENCER_PERIOD_CYCLES - a.frame_seq_counter, cycles)
        ticked == [a EXCEPT !.ch1 = tick_timer(@, seg), !.ch2 = tick_timer(@, seg),
                            !.ch3 = tick_timer(@, seg), !.ch4 = tick_timer(@, seg),
                            !.frame_seq_counter = @ + seg]
    IN IF cycles = 0 \/ ~a.powered THEN a
       ELSE IF a.frame_seq_counter + seg >= FRAME_SEQUENCER_PERIOD_CYCLES
       THEN apu_tick(clock_frame_sequencer([ticked EXCEPT !.frame_seq_counter = 0]),
                     cycles - seg)
       ELSE ticked

nr52_read(a) ==
    LET on(ch, bit) == IF a.powered /\ ch.enabled THEN bit ELSE 0
    IN (IF a.powered THEN 128 ELSE 0) + 112
       + on(a.ch1, 1) + on(a.ch2, 2) + on(a.ch3, 4) + on(a.ch4, 8)

read_register(a, addr) ==
    CASE addr = NR10 -> BitOr(a.ch1.nrx0, 128)
      [] addr = NR11 -> BitOr(a.ch1.nrx1, 63)
      [] addr = NR12 -> a.ch1.nrx2
      [] addr = NR14 -> BitOr(a.ch1.nrx4, 191)
      [] addr = NR21 -> BitOr(a.ch2.nrx1, 63)
      [] addr = NR22 -> a.ch2.nrx2
      [] addr = NR24 -> BitOr(a.ch2.nrx4, 191)
      [] addr = NR30 -> BitOr(a.ch3.nrx0, 127)
      [] addr = NR32 -> BitOr(a.ch3.nrx2, 159)
      [] addr = NR34 -> BitOr(a.ch3.nrx4, 191)
      [] addr = NR42 -> a.ch4.nrx2
      [] addr = NR43 -> a.ch4.nrx3
      [] addr = NR44 -> BitOr(a.ch4.nrx4, 191)
      [] addr = NR50 -> a.nr50
      [] addr = NR51 -> a.nr51
      [] addr = NR52 -> nr52_read(a)
      [] addr \in WAVE_RAM_START..WAVE_RAM_END ->
           read_wave_ram(a.ch3, addr - WAVE_RAM_START, a.cgb_mode)
      [] OTHER -> 255

write_nr52(a, value, div_counter) ==
    LET next_power == TestBit(value, 7)
    IN IF a.powered /\ ~next_power
       THEN [a EXCEPT !.powered = FALSE, !.nr50 = 0, !.nr51 = 0,
                      !.frame_seq_step = IF a.cgb_mode THEN @ ELSE 0,
                      !.frame_seq_counter = IF a.cgb_mode THEN @ ELSE 0,
                      !.ch1 = powered_register_clear(@, a.cgb_mode),
                      !.ch2 = powered_register_clear(@, a.cgb_mode),
                      !.ch3 = powered_register_clear(@, a.cgb_mode),
                      !.ch4 = powered_register_clear(@, a.cgb_mode)]
       ELSE IF ~a.powered /\ next_power
       THEN [a EXCEPT !.powered = TRUE, !.frame_seq_step = 0,
                      !.frame_seq_counter = IF a.cgb_mode THEN div_counter % 8192 ELSE 0]
       ELSE a

write_register(a, addr, value, div_counter) ==
    LET step == a.frame_seq_step
        cgb == a.cgb_mode
    IN IF addr \in WAVE_RAM_START..WAVE_RAM_END
       THEN [a EXCEPT !.ch3 = write_wave_ram(@, addr - WAVE_RAM_START, value, cgb)]
       ELSE IF addr = NR52 THEN write_nr52(a, value, div_counter)
       ELSE IF ~a.powered
       THEN IF cgb THEN a
            ELSE CASE addr = NR11 -> [a EXCEPT !.ch1 = write_nrx1(@, value % 64)]
                   [] addr = NR21 -> [a EXCEPT !.ch2 = write_nrx1(@, value % 64)]
                   [] addr = NR31 -> [a EXCEPT !.ch3 = write_nrx1(@, value)]
                   [] addr = NR41 -> [a EXCEPT !.ch4 = write_nrx1(@, value % 64)]
                   [] OTHER -> a
       ELSE CASE addr = NR10 -> [a EXCEPT !.ch1 = write_nrx0(@, value % 128)]
              [] addr = NR11 -> [a EXCEPT !.ch1 = write_nrx1(@, value)]
              [] addr = NR12 -> [a EXCEPT !.ch1 = write_nrx2(@, value)]
              [] addr = NR13 -> [a EXCEPT !.ch1.nrx3 = value]
              [] addr = NR14 -> [a EXCEPT !.ch1 = write_nrx4(@, value, step, cgb)]
              [] addr = NR21 -> [a EXCEPT !.ch2 = write_nrx1(@, value)]
              [] addr = NR22 -> [a EXCEPT !.ch2 = write_nrx2(@, value)]
              [] addr = NR23 -> [a EXCEPT !.ch2.nrx3 = value]
              [] addr = NR24 -> [a EXCEPT !.ch2 = write_nrx4(@, value, step, cgb)]
              [] addr = NR30 -> [a EXCEPT !.ch3 = write_nrx0(@, value)]
              [] addr = NR31 -> [a EXCEPT !.ch3 = write_nrx1(@, value)]
              [] addr = NR32 -> [a EXCEPT !.ch3 = write_nrx2(@, value)]
              [] addr = NR33 -> [a EXCEPT !.ch3.nrx3 = value]
              [] addr = NR34 -> [a EXCEPT !.ch3 = write_nrx4(@, value, step, cgb)]
              [] addr = NR41 -> [a EXCEPT !.ch4 = write_nrx1(@, value)]
              [] addr = NR42 -> [a EXCEPT !.ch4 = write_nrx2(@, value)]
              [] addr = NR43 -> [a EXCEPT !.ch4.nrx3 = value]
              [] addr = NR44 -> [a EXCEPT !.ch4 = write_nrx4(@, value, step, cgb)]
              [] addr = NR50 -> [a EXCEPT !.nr50 = value]
              [] addr = NR51 -> [a EXCEPT !.nr51 = value]
              [] OTHER -> a

----------------------------------------------------------------------------
(* cartridge/mbc3.rs, cartridge/mod.rs.  A byte vector is [len, mem] with  *)
(* mem a sparse array; a cartridge is [battery, ram, mbc] beside its ROM.  *)

CYCLES_PER_SECOND == 4194304

RtcDefault == [sec |-> 0, min |-> 0, hour |-> 0, day_low |-> 0, day_high |-> 0]

rtc_read_reg(r, reg) ==
    CASE reg = 8 -> r.sec
      [] reg = 9 -> r.min
      [] reg = 10 -> r.hour
      [] reg = 11 -> r.day_low
      [] reg = 12 -> BitOr(r.day_high, 62)
      [] OTHER -> 255

rtc_write_reg(r, reg, val) ==
    CASE reg = 8 -> [r EXCEPT !.sec = val % 60]
      [] reg = 9 -> [r EXCEPT !.min = val % 60]
      [] reg = 10 -> [r EXCEPT !.hour = val % 24]
      [] reg = 11 -> [r EXCEPT !.day_low = val]
      [] reg = 12 -> [r EXCEPT !.day_high = BitAnd(val, 193)]
      [] OTHER -> r

(* Rtc::halted.                                                           *)
rtc_halted(r) == TestBit(r.day_high, 6)

day_counter(r) == ((r.day_high % 2) * 256) + r.day_low

set_day_counter(r, day) ==
    [r EXCEPT !.day_low = day % 256,
              !.day_high = BitOr(BitAnd(r.day_high, 254), (day \div 256) % 2)]

increment_second(r) ==
    IF rtc_halted(r) THEN r
    ELSE IF r.sec + 1 < 60 THEN [r EXCEPT !.sec = @ + 1]
    ELSE IF r.min + 1 < 60 THEN [r EXCEPT !.sec = 0, !.min = @ + 1]
    ELSE IF r.hour + 1 < 24 THEN [r EXCEPT !.sec = 0, !.min = 0, !.hour = @ + 1]
    ELSE LET z == [r EXCEPT !.sec = 0, !.min = 0, !.hour = 0]
             day == day_counter(z) + 1
         IN IF day > 511
            THEN set_day_counter([z EXCEPT !.day_high = BitOr(@, 128)], 0)
            ELSE set_day_counter(z, day)

NoRtc == [some |-> FALSE, rtc |-> RtcDefault]

Mbc0New == [kind |-> "Mbc0"]

Mbc3New ==
    [kind |-> "Mbc3", ram_enabled |-> FALSE, rom_bank |-> 1, ram_rtc_select |-> 0,
     latch_last_write |-> 255, rtc_live |-> RtcDefault, rtc_latched |-> NoRtc,
     rtc_cycle_accum |-> 0]

(* Mbc3::write_rom; Mbc0::write_rom does nothing.                          *)
(* A faulty variant that takes a snapshot at every write of 1.              *)
mbc_write_rom_latch_on_one(m, addr, val) ==
    IF m.kind # "Mbc3" THEN m
    ELSE IF addr <= 8191 THEN [m EXCEPT !.ram_enabled = (val % 16 = 10)]
    ELSE IF addr <= 16383
         THEN [m EXCEPT !.rom_bank = IF val % 128 = 0 THEN 1 ELSE val % 128]
    ELSE IF addr <= 24575 THEN [m EXCEPT !.ram_rtc_select = val % 16]
    ELSE IF addr <= 32767
         THEN [m EXCEPT !.latch_last_write = val,
                        !.rtc_latched = IF val = 1
                                        THEN [some |-> TRUE, rtc |-> m.rtc_live]
                                        ELSE @]
    ELSE m

mbc_write_rom(m, addr, val) ==
    IF m.kind # "Mbc3" THEN m
    ELSE IF addr <= 8191 THEN [m EXCEPT !.ram_enabled = (val % 16 = 10)]
    ELSE IF addr <= 16383
         THEN [m EXCEPT !.rom_bank = IF val % 128 = 0 THEN 1 ELSE val % 128]
    ELSE IF addr <= 24575 THEN [m EXCEPT !.ram_rtc_select = val % 16]
    ELSE IF addr <= 32767
         THEN [m EXCEPT !.latch_last_write = val,
                        !.rtc_latched = IF m.latch_last_write = 0 /\ val = 1
                                        THEN [some |-> TRUE, rtc |-> m.rtc_live]
                                        ELSE @]
    ELSE m

(* The offset into external RAM of an address in 0xA000..=0xBFFF.          *)
ram_offset(m, ram, addr) ==
    LET bank_count == IF ram.len \div 8192 = 0 THEN 1 ELSE ram.len \div 8192
        bank == IF m.kind = "Mbc3" THEN m.ram_rtc_select % bank_count ELSE 0
    IN (bank * 8192) + (addr - 40960)

(* Mbc0::read_ram and Mbc3::read_ram.                                      *)
mbc_read_ram(m, ram, addr) ==
    IF m.kind # "Mbc3"
    THEN IF ram_offset(m, ram, addr) < ram.len
         THEN Get(ram.mem, ram_offset(m, ram, addr)) ELSE 255
    ELSE IF ~m.ram_enabled THEN 255
    ELSE IF m.ram_rtc_select <= 3
         THEN IF ram_offset(m, ram, addr) < ram.len
              THEN Get(ram.mem, ram_offset(m, ram, addr)) ELSE 255
    ELSE IF m.ram_rtc_select \in 8..12
         THEN rtc_read_reg(IF m.rtc_latched.some THEN m.rtc_latched.rtc ELSE m.rtc_live,
                           m.ram_rtc_select)
    ELSE 255

(* Mbc0::write_ram and Mbc3::write_ram, on the cartridge c.                *)
mbc_write_ram(c, addr, val) ==
    LET off == ram_offset(c.mbc, c.ram, addr)
        stored == IF off < c.ram.len THEN [c EXCEPT !.ram.mem = Put(@, off, val)] ELSE c
    IN IF c.mbc.kind # "Mbc3" THEN stored
       ELSE IF ~c.mbc.ram_enabled THEN c
       ELSE IF c.mbc.ram_rtc_select <= 3 THEN stored
       ELSE IF c.mbc.ram_rtc_select \in 8..12
            THEN [c EXCEPT !.mbc.rtc_live = rtc_write_reg(@, c.mbc.ram_rtc_select, val)]
       ELSE c

RECURSIVE increment_seconds(_, _)
increment_seconds(r, k) == IF k = 0 THEN r ELSE increment_seconds(increment_second(r), k - 1)

(* Mbc3::tick; the default Mbc::tick does nothing.                         *)
mbc_tick(m, cycles) ==
    IF m.kind # "Mbc3" \/ rtc_halted(m.rtc_live) THEN m
    ELSE LET total == m.rtc_cycle_accum + cycles
         IN [m EXCEPT !.rtc_cycle_accum = total % CYCLES_PER_SECOND,
                      !.rtc_live = increment_seconds(@, total \div CYCLES_PER_SECOND)]

CartNew(battery, ram_len, mbc) ==
    [battery |-> battery, ram |-> [len |-> ram_len, mem |-> EmptyMem], mbc |-> mbc]

RomOnlyCart == CartNew(FALSE, 0, Mbc0New)

(* Byte vectors: Vec::extend_from_slice and a slice as a sequence.         *)
RECURSIVE extend_from_slice(_, _)
extend_from_slice(v, s) ==
    IF s = <<>> THEN v
    ELSE extend_from_slice([len |-> v.len + 1, mem |-> Put(v.mem, v.len, Head(s))], Tail(s))

slice(v, from, to) == [i \in 1..(to - from) |-> Get(v.mem, from + i - 1)]

SAVE_MAGIC == <<71, 66, 83, 86, 49>>

to_le_bytes(n) ==
    <<n % 256, (n \div 256) % 256, (n \div 65536) % 256, (n \div 16777216) % 256>>

(* u32::from_le_bytes; values of 2^30 and more are all read as 2^30, which *)
(* is larger than any vector here.                                         *)
from_le_bytes(s) ==
    IF s[4] >= 64 THEN 1073741824
    ELSE s[1] + (s[2] * 256) + (s[3] * 65536) + (s[4] * 16777216)

(* Mbc3::save_extra; the default Mbc::save_extra is empty.                 *)
save_extra(m) ==
    IF m.kind # "Mbc3" THEN <<>>
    ELSE <<m.rtc_live.sec, m.rtc_live.min, m.rtc_live.hour, m.rtc_live.day_low,
           m.rtc_live.day_high>> \o to_le_bytes(m.rtc_cycle_accum)

(* Mbc3::load_extra; the default Mbc::load_extra accepts only the empty    *)
(* payload.  The accumulator is the little-endian u32 modulo 2^22, which   *)
(* drops the top byte and the top two bits of the third.                   *)
load_extra(m, data) ==
    IF data = <<>> THEN [ok |-> TRUE, mbc |-> m]
    ELSE IF m.kind # "Mbc3" \/ Len(data) # 9 THEN [ok |-> FALSE, mbc |-> m]
    ELSE [ok |-> TRUE,
          mbc |-> [m EXCEPT !.rtc_live = [sec |-> data[1] % 60, min |-> data[2] % 60,
                                          hour |-> data[3] % 24, day_low |-> data[4],
                                          day_high |-> BitAnd(data[5], 193)],
                            !.rtc_cycle_accum = data[6] + (data[7] * 256)
                                                + ((data[8] % 64) * 65536),
                            !.rtc_latched = NoRtc]]

(* Cartridge::save_to_path: the bytes written, none without a battery.     *)
save_to_path(c) ==
    IF ~c.battery THEN [some |-> FALSE, data |-> [len |-> 0, mem |-> EmptyMem]]
    ELSE [some |-> TRUE,
          data |-> IF save_extra(c.mbc) = <<>> THEN c.ram
                   ELSE extend_from_slice(c.ram,
                            SAVE_MAGIC \o to_le_bytes(Len(save_extra(c.mbc)))
                            \o save_extra(c.mbc))]

(* The first n bytes of src over those of dst (copy_from_slice).           *)
copy_from_slice(dst, src, n) ==
    [i \in {x \in DOMAIN src : x < n} \cup {x \in DOMAIN dst : x >= n} |->
        IF i < n THEN src[i] ELSE dst[i]]

(* Cartridge::load_from_path on the bytes of an existing file.             *)
load_from_path(c, data) ==
    LET ram_len == c.ram.len
        trailer == slice(data, ram_len, data.len)
        loaded == [c EXCEPT !.ram.mem = copy_from_slice(@, data.mem, ram_len)]
        extra(r) == [ok |-> r.ok, cart |-> [loaded EXCEPT !.mbc = r.mbc]]
    IN IF ~c.battery THEN [ok |-> TRUE, cart |-> c]
       ELSE IF data.len < ram_len
            THEN [ok |-> TRUE,
                  cart |-> [c EXCEPT !.ram.mem = copy_from_slice(@, data.mem, data.len)]]
       ELSE IF trailer = <<>> THEN extra(load_extra(c.mbc, <<>>))
       ELSE IF Len(trailer) < 9 THEN [ok |-> TRUE, cart |-> loaded]
       ELSE IF SubSeq(trailer, 1, 5) # SAVE_MAGIC THEN [ok |-> TRUE, cart |-> loaded]
       ELSE IF Len(trailer) < 9 + from_le_bytes(SubSeq(trailer, 6, 9))
            THEN [ok |-> FALSE, cart |-> loaded]
       ELSE extra(load_extra(c.mbc,
                    SubSeq(trailer, 10, 9 + from_le_bytes(SubSeq(trailer, 6, 9)))))

----------------------------------------------------------------------------
(* bus/bus.rs                                                              *)

IO_IF == 15
IO_KEY1 == 77
IO_VBK == 79
IO_HDMA1 == 81
IO_HDMA2 == 82
IO_HDMA3 == 83
IO_HDMA4 == 84
IO_HDMA5 == 85
IO_SVBK == 112

HdmaBlockBytes == 16

(* Bus::new for a ROM-only cartridge whose header selects the mode.  ROM    *)
(* reads are those of bank 0 and the power-on bank 1.                      *)
BusNew(mode, rom) ==
    [mode |-> mode, rom |-> rom, cart |-> RomOnlyCart,
     ppu |-> PpuNew, timer |-> TimerNew, input |-> JoypadNew, serial |-> SerialNew,
     apu |-> ApuNew(mode = "Cgb"),
     wram |-> EmptyMem, vram |-> EmptyMem, oam |-> EmptyMem, io |-> EmptyMem,
     hram |-> EmptyMem, ie |-> 0, iflag |-> 0, oam_dma |-> OamDmaDefault,
     cgb_double_speed |-> FALSE, cgb_speed_switch_prepare |-> FALSE,
     cgb_vram_bank |-> 0, cgb_wram_bank |-> 1,
     cgb_hdma_src |-> 0, cgb_hdma_dst |-> 32768,
     cgb_hdma_blocks_remaining |-> 0, cgb_hdma_active |-> FALSE,
     cgb_hdma_last_hblank_ly |-> -1]

is_cgb(b) == b.mode = "Cgb"

read_key1(b) ==
    IF ~is_cgb(b) THEN 255
    ELSE (IF b.cgb_double_speed THEN 128 ELSE 0) + 126
         + (IF b.cgb_speed_switch_prepare THEN 1 ELSE 0)

write_key1(b, val) ==
    IF ~is_cgb(b) THEN b ELSE [b EXCEPT !.cgb_speed_switch_prepare = (val % 2 = 1)]

read_vbk(b) == IF ~is_cgb(b) THEN 255 ELSE 254 + (b.cgb_vram_bank % 2)

write_vbk(b, val) == IF ~is_cgb(b) THEN b ELSE [b EXCEPT !.cgb_vram_bank = val % 2]

read_svbk(b) == IF ~is_cgb(b) THEN 255 ELSE 248 + b.cgb_wram_bank

write_svbk(b, val) ==
    IF ~is_cgb(b) THEN b
    ELSE [b EXCEPT !.cgb_wram_bank = IF val % 8 = 0 THEN 1 ELSE val % 8]

selected_wram_bank(b) == IF is_cgb(b) THEN b.cgb_wram_bank ELSE 1

(* The index into wram of an address in 0xC000..=0xFDFF.                   *)
wram_index(b, addr) ==
    IF addr >= 49152 /\ addr <= 53247 THEN addr - 49152
    ELSE IF addr >= 53248 /\ addr <= 57343 THEN selected_wram_bank(b) * 4096 + (addr - 53248)
    ELSE IF addr >= 57344 /\ addr <= 61439 THEN addr - 57344
    ELSE selected_wram_bank(b) * 4096 + (addr - 61440)

read_wram(b, addr) == Get(b.wram, wram_index(b, addr))

write_wram(b, addr, val) == [b EXCEPT !.wram = Put(b.wram, wram_index(b, addr), val)]

vram_index(b, addr) == (IF is_cgb(b) THEN b.cgb_vram_bank ELSE 0) * 8192 + (addr - 32768)

read_hdma1(b) == IF ~is_cgb(b) THEN 255 ELSE b.cgb_hdma_src \div 256

read_hdma2(b) == IF ~is_cgb(b) THEN 255 ELSE BitAnd(b.cgb_hdma_src % 256, 240)

read_hdma3(b) == IF ~is_cgb(b) THEN 255 ELSE BitAnd((b.cgb_hdma_dst - 32768) \div 256, 31)

read_hdma4(b) == IF ~is_cgb(b) THEN 255 ELSE BitAnd((b.cgb_hdma_dst - 32768) % 256, 240)

read_hdma5(b) ==
    IF ~is_cgb(b) THEN 255
    ELSE IF ~b.cgb_hdma_active /\ b.cgb_hdma_blocks_remaining = 0 THEN 255
    ELSE LET len == BitAnd(IF b.cgb_hdma_blocks_remaining = 0 THEN 0
                           ELSE b.cgb_hdma_blocks_remaining - 1, 127)
         IN IF b.cgb_hdma_active THEN len ELSE 128 + len

write_hdma1(b, val) ==
    IF ~is_cgb(b) THEN b
    ELSE [b EXCEPT !.cgb_hdma_src = val * 256 + BitAnd(b.cgb_hdma_src, 240)]

write_hdma2(b, val) ==
    IF ~is_cgb(b) THEN b
    ELSE [b EXCEPT !.cgb_hdma_src = BitAnd(b.cgb_hdma_src, 65280) + BitAnd(val, 240)]

write_hdma3(b, val) ==
    IF ~is_cgb(b) THEN b
    ELSE [b EXCEPT !.cgb_hdma_dst =
              32768 + BitAnd(val, 31) * 256 + BitAnd(b.cgb_hdma_dst - 32768, 240)]

write_hdma4(b, val) ==
    IF ~is_cgb(b) THEN b
    ELSE [b EXCEPT !.cgb_hdma_dst =
              32768 + BitAnd(b.cgb_hdma_dst - 32768, 7936) + BitAnd(val, 240)]

sanitize_hdma_source(addr) ==
    LET masked == BitAnd(addr, 65520)
    IN IF masked >= 32768 /\ masked <= 40944 THEN BitAnd(masked, 32752) ELSE masked

lcd_enabled(b) == BitAnd(Get(b.io, IO_LCDC), 128) # 0

ppu_mode(b) == Get(b.io, IO_STAT) % 4

(* A faulty variant of cpu_access_blocked_by_ppu that leaves OAM open      *)
(* during mode 2.                                                          *)
cpu_access_blocked_in_mode3(b, addr) ==
    IF ~lcd_enabled(b) THEN FALSE
    ELSE IF addr >= 32768 /\ addr <= 40959 THEN ppu_mode(b) = 3
    ELSE IF addr >= 65024 /\ addr <= 65183 THEN ppu_mode(b) = 3
    ELSE FALSE

cpu_access_blocked_by_ppu(b, addr) ==
    IF ~lcd_enabled(b) THEN FALSE
    ELSE IF addr >= 32768 /\ addr <= 40959 THEN ppu_mode(b) = 3
    ELSE IF addr >= 65024 /\ addr <= 65183 THEN ppu_mode(b) = 2 \/ ppu_mode(b) = 3
    ELSE FALSE

(* Variant: IF read without the unused bits set.                           *)
read_if_raw(b) == b.iflag

(* Bus::read8_direct, the arm of 0xFF0F.                                   *)
read_if(b) == BitOr(b.iflag, 224)

(* Bus::read8_direct.  The CGB palette ports 0xFF68..=0xFF6B are decoded   *)
(* by the PPU and are not among the addresses this model accesses.         *)
read8_direct(b, addr) ==
    IF addr <= 32767 THEN Get(b.rom, addr)
    ELSE IF addr <= 40959 THEN Get(b.vram, vram_index(b, addr))
    ELSE IF addr <= 49151 THEN mbc_read_ram(b.cart.mbc, b.cart.ram, addr)
    ELSE IF addr <= 65023 THEN read_wram(b, addr)
    ELSE IF addr <= 65183 THEN Get(b.oam, addr - 65024)
    ELSE IF addr <= 65279 THEN 255
    ELSE IF addr <= 65407 THEN
        LET idx == addr - 65280
        IN CASE idx = 0 -> read_joyp(b.input)
             [] idx = 4 -> read_div(b)
             [] idx = 5 -> b.timer.tima
             [] idx = 6 -> b.timer.tma
             [] idx = 7 -> BitOr(b.timer.tac, 248)
             [] idx = IO_IF -> read_if(b)
             [] addr \in NR10..WAVE_RAM_END -> read_register(b.apu, addr)
             [] idx = IO_HDMA1 -> read_hdma1(b)
             [] idx = IO_HDMA2 -> read_hdma2(b)
             [] idx = IO_HDMA3 -> read_hdma3(b)
             [] idx = IO_HDMA4 -> read_hdma4(b)
             [] idx = IO_HDMA5 -> read_hdma5(b)
             [] idx = IO_VBK -> read_vbk(b)
             [] idx = IO_SVBK -> read_svbk(b)
             [] idx = IO_KEY1 -> read_key1(b)
             [] OTHER -> Get(b.io, idx)
    ELSE IF addr <= 65534 THEN Get(b.hram, addr - 65408)
    ELSE b.ie

(* Bus::perform_hdma_block copies through read8_direct / write8_direct;    *)
(* its destination is always VRAM, so the write is the VRAM arm.           *)
RECURSIVE hdma_copy(_, _, _, _)
hdma_copy(b, src_base, dst_base, i) ==
    IF i = HdmaBlockBytes THEN b
    ELSE hdma_copy([b EXCEPT !.vram = Put(b.vram, vram_index(b, U16(dst_base + i)),
                                          read8_direct(b, U16(src_base + i)))],
                   src_base, dst_base, i + 1)

perform_hdma_block(b) ==
    IF b.cgb_hdma_blocks_remaining = 0 THEN [b EXCEPT !.cgb_hdma_active = FALSE]
    ELSE
      LET src_base == sanitize_hdma_source(b.cgb_hdma_src)
          dst_base == 32768 + BitAnd(b.cgb_hdma_dst - 32768, 8176)
          b1 == hdma_copy(b, src_base, dst_base, 0)
          left == b.cgb_hdma_blocks_remaining - 1
          b2 == [b1 EXCEPT !.cgb_hdma_src = sanitize_hdma_source(U16(src_base + 16)),
                           !.cgb_hdma_dst = 32768 + BitAnd(U16(dst_base - 32768 + 16), 8176),
                           !.cgb_hdma_blocks_remaining = left]
      IN IF left = 0
         THEN [b2 EXCEPT !.cgb_hdma_active = FALSE, !.cgb_hdma_last_hblank_ly = -1]
         ELSE b2

RECURSIVE perform_all_hdma_blocks(_)
perform_all_hdma_blocks(b) ==
    IF b.cgb_hdma_blocks_remaining > 0 THEN perform_all_hdma_blocks(perform_hdma_block(b))
    ELSE b

(* A faulty variant of start_hdma_transfer without the abort: a bit-7-clear *)
(* write always starts a general-purpose transfer.                         *)
start_hdma_transfer_no_abort(b, control) ==
    IF ~is_cgb(b) THEN b
    ELSE
      LET b1 == [b EXCEPT !.cgb_hdma_src = sanitize_hdma_source(b.cgb_hdma_src),
                          !.cgb_hdma_dst = 32768 + BitAnd(b.cgb_hdma_dst - 32768, 8176),
                          !.cgb_hdma_blocks_remaining = U8(BitAnd(control, 127) + 1),
                          !.cgb_hdma_last_hblank_ly = -1]
      IN IF BitAnd(control, 128) = 0
         THEN perform_all_hdma_blocks([b1 EXCEPT !.cgb_hdma_active = FALSE])
         ELSE [b1 EXCEPT !.cgb_hdma_active = TRUE]

start_hdma_transfer(b, control) ==
    IF ~is_cgb(b) THEN b
    ELSE IF b.cgb_hdma_active /\ BitAnd(control, 128) = 0
    THEN [b EXCEPT !.cgb_hdma_active = FALSE, !.cgb_hdma_last_hblank_ly = -1]
    ELSE
      LET b1 == [b EXCEPT !.cgb_hdma_src = sanitize_hdma_source(b.cgb_hdma_src),
                          !.cgb_hdma_dst = 32768 + BitAnd(b.cgb_hdma_dst - 32768, 8176),
                          !.cgb_hdma_blocks_remaining = U8(BitAnd(control, 127) + 1),
                          !.cgb_hdma_last_hblank_ly = -1]
      IN IF BitAnd(control, 128) = 0
         THEN perform_all_hdma_blocks([b1 EXCEPT !.cgb_hdma_active = FALSE])
         ELSE [b1 EXCEPT !.cgb_hdma_active = TRUE]

(* A faulty variant of tick_hdma that forgets which line it last served.   *)
tick_hdma_every_tick(b) ==
    IF ~is_cgb(b) \/ ~b.cgb_hdma_active THEN b
    ELSE IF ~lcd_enabled(b) THEN perform_all_hdma_blocks(b)
    ELSE IF ppu_mode(b) = 0 /\ Get(b.io, IO_LY) < VBlankLine
         THEN perform_hdma_block(b)
         ELSE b

tick_hdma(b) ==
    IF ~is_cgb(b) \/ ~b.cgb_hdma_active THEN b
    ELSE IF ~lcd_enabled(b) THEN perform_all_hdma_blocks(b)
    ELSE LET ly == Get(b.io, IO_LY)
         IN IF ppu_mode(b) = 0 /\ ly < VBlankLine
            THEN IF b.cgb_hdma_last_hblank_ly # ly
                 THEN [perform_hdma_block(b) EXCEPT !.cgb_hdma_last_hblank_ly = ly]
                 ELSE b
            ELSE [b EXCEPT !.cgb_hdma_last_hblank_ly = -1]

(* Timer::raw_counter, whose body is not among the sources: the write arm  *)
(* of the APU window says it is the counter at the end of the access, four *)
(* cycles on.                                                              *)
raw_counter(b) == U16(b.timer.counter + 4)

(* Bus::write8_direct (the palette ports excepted).                        *)
write8_direct(b, addr, val) ==
    IF addr <= 32767 THEN [b EXCEPT !.cart.mbc = mbc_write_rom(@, addr, val)]
    ELSE IF addr <= 40959 THEN [b EXCEPT !.vram = Put(b.vram, vram_index(b, addr), val)]
    ELSE IF addr <= 49151 THEN [b EXCEPT !.cart = mbc_write_ram(@, addr, val)]
    ELSE IF addr <= 65023 THEN write_wram(b, addr, val)
    ELSE IF addr <= 65183 THEN [b EXCEPT !.oam = Put(b.oam, addr - 65024, val)]
    ELSE IF addr <= 65279 THEN b
    ELSE IF addr <= 65407 THEN
        LET idx == addr - 65280
        IN CASE idx = 0 -> [b EXCEPT !.input = write_joyp(b.input, val)]
             [] idx = 4 -> write_div(b)
             [] idx = 5 -> [b EXCEPT !.timer.tima = val]
             [] idx = 6 -> [b EXCEPT !.timer.tma = val]
             [] idx = 7 -> write_tac(b, val)
             [] idx = IO_IF -> [b EXCEPT !.iflag = BitAnd(val, 31)]
             [] addr \in NR10..WAVE_RAM_END ->
                  [b EXCEPT !.apu = write_register(b.apu, addr, val, raw_counter(b))]
             [] idx = IO_VBK -> write_vbk(b, val)
             [] idx = IO_KEY1 -> write_key1(b, val)
             [] idx = IO_SVBK -> write_svbk(b, val)
             [] idx = IO_HDMA1 -> write_hdma1(b, val)
             [] idx = IO_HDMA2 -> write_hdma2(b, val)
             [] idx = IO_HDMA3 -> write_hdma3(b, val)
             [] idx = IO_HDMA4 -> write_hdma4(b, val)
             [] idx = IO_HDMA5 -> start_hdma_transfer(b, val)
             [] idx = IO_SC ->
                  LET b1 == [b EXCEPT !.io = Put(b.io, IO_SC, val)]
                  IN IF BitAnd(val, 128) # 0 THEN start_transfer(b1, Get(b1.io, IO_SB))
                     ELSE stop_transfer(b1)
             [] idx = IO_STAT ->
                  [b EXCEPT !.io = Put(b.io, IO_STAT,
                                       BitAnd(Get(b.io, IO_STAT), 7) + BitAnd(val, 120))]
             [] idx = IO_LY -> [b EXCEPT !.io = Put(b.io, IO_LY, 0), !.ppu = reset_ly(b.ppu)]
             [] idx = IO_DMA -> [b EXCEPT !.io = Put(b.io, IO_DMA, val),
                                         !.oam_dma = oam_dma_start(b.oam_dma, val)]
             [] OTHER -> [b EXCEPT !.io = Put(b.io, idx, val)]
    ELSE IF addr <= 65534 THEN [b EXCEPT !.hram = Put(b.hram, addr - 65408, val)]
    ELSE [b EXCEPT !.ie = val]

(* The OAM corruption bug (DMG).  Only the plain read and write forms are  *)
(* reachable: nothing in the CPU calls schedule_oam_bug_idu_read or        *)
(* trigger_oam_bug_idu_write, so oam_bug_read_idu_pending_addr stays None. *)

OAM_ROW_BYTES == 8

OamBugRows == 20

oam_bug_active_window(b) ==
    lcd_enabled(b) /\ b.ppu.mode = 2 /\ b.ppu.ly < VBlankLine

(* Bus::oam_bug_row: the row, or -1 for None.                              *)
oam_bug_row(b) ==
    IF ~oam_bug_active_window(b) THEN -1
    ELSE IF b.ppu.dots \div 4 < OamBugRows THEN b.ppu.dots \div 4 ELSE -1

oam_word(b, row, word) ==
    LET base == row * OAM_ROW_BYTES + word * 2
    IN Get(b.oam, base) + 256 * Get(b.oam, base + 1)

set_oam_word(b, row, word, val) ==
    LET base == row * OAM_ROW_BYTES + word * 2
    IN [b EXCEPT !.oam = Put(Put(b.oam, base, val % 256), base + 1, val \div 256)]

copy_oam_row_suffix_from_previous(b, row) ==
    IF row = 0 THEN b
    ELSE set_oam_word(
           set_oam_word(
             set_oam_word(b, row, 1, oam_word(b, row - 1, 1)),
             row, 2, oam_word(b, row - 1, 2)),
           row, 3, oam_word(b, row - 1, 3))

apply_oam_bug_write(b, row) ==
    IF row = 0 \/ row >= OamBugRows THEN b
    ELSE IF row = 1 THEN copy_oam_row_suffix_from_previous(b, row)
    ELSE LET a == oam_word(b, row, 0)
             bb == oam_word(b, row - 1, 0)
             c == oam_word(b, row - 1, 2)
         IN copy_oam_row_suffix_from_previous(
              set_oam_word(b, row, 0, BitXor(BitAnd(BitXor(a, c), BitXor(bb, c)), c)), row)

apply_oam_bug_read(b, row) ==
    IF row = 0 \/ row >= OamBugRows THEN b
    ELSE LET a == oam_word(b, row, 0)
             bb == oam_word(b, row - 1, 0)
             c == oam_word(b, row - 1, 2)
         IN copy_oam_row_suffix_from_previous(
              set_oam_word(b, row, 0, BitOr(bb, BitAnd(a, c))), row)

InOamBugRange(addr) == addr >= 65024 /\ addr <= 65279

trigger_oam_bug_on_read_access(b, addr) ==
    IF is_cgb(b) \/ ~InOamBugRange(addr) THEN b
    ELSE IF oam_bug_row(b) # -1 THEN apply_oam_bug_read(b, oam_bug_row(b))
    ELSE b

trigger_oam_bug_on_write_access(b, addr) ==
    IF is_cgb(b) \/ ~InOamBugRange(addr) THEN b
    ELSE IF oam_bug_row(b) # -1 THEN apply_oam_bug_write(b, oam_bug_row(b))
    ELSE b

(* Variant: the switch leaves the request armed.                           *)
try_cgb_speed_switch_keeps_request(b) ==
    IF ~is_cgb(b) \/ ~b.cgb_speed_switch_prepare THEN [b |-> b, ok |-> FALSE]
    ELSE [b |-> [b EXCEPT !.cgb_double_speed = ~b.cgb_double_speed], ok |-> TRUE]

try_cgb_speed_switch(b) ==
    IF ~is_cgb(b) \/ ~b.cgb_speed_switch_prepare THEN [b |-> b, ok |-> FALSE]
    ELSE [b |-> [b EXCEPT !.cgb_speed_switch_prepare = FALSE,
                          !.cgb_double_speed = ~b.cgb_double_speed],
          ok |-> TRUE]

(* Bus::read8: [b |-> the bus after the read, v |-> the byte returned].    *)
read8(b, addr) ==
    IF blocks_cpu_addr(b.oam_dma, addr) THEN [b |-> b, v |-> 255]
    ELSE LET b1 == trigger_oam_bug_on_read_access(b, addr)
         IN IF cpu_access_blocked_by_ppu(b1, addr) THEN [b |-> b1, v |-> 255]
            ELSE [b |-> b1, v |-> read8_direct(b1, addr)]

write8(b, addr, val) ==
    IF blocks_cpu_addr(b.oam_dma, addr) THEN b
    ELSE LET b1 == trigger_oam_bug_on_write_access(b, addr)
         IN IF cpu_access_blocked_by_ppu(b1, addr) THEN b1
            ELSE write8_direct(b1, addr, val)

RECURSIVE oam_dma_pump(_)
oam_dma_pump(b) ==
    LET t == pop_transfer(b.oam_dma)
    IN IF ~t.some THEN [b EXCEPT !.oam_dma = t.d]
       ELSE oam_dma_pump([b EXCEPT !.oam_dma = t.d,
                                   !.oam = Put(b.oam, t.dst, read8_direct(b, t.src))])

tick_oam_dma(b, cycles) ==
    oam_dma_pump([b EXCEPT !.oam_dma = add_cycles(b.oam_dma, cycles)])

(* Variant: the peripherals get every CPU cycle at either speed.           *)
base_cycles_whole(b, cycles) == cycles

(* CPU cycles to base cycles (Bus::tick, first statement).                 *)
base_cycles(b, cycles) ==
    IF is_cgb(b) /\ b.cgb_double_speed THEN cycles \div 2 ELSE cycles

(* A faulty variant of Bus::tick that advances the PPU before the OAM DMA. *)
bus_tick_ppu_first(b, cycles) ==
    LET c == base_cycles(b, cycles)
    IN serial_tick(
          [tick_hdma(tick_oam_dma(ppu_tick(
              timer_tick([b EXCEPT !.cart.mbc = mbc_tick(@, c)], c), c), c))
             EXCEPT !.apu = apu_tick(@, c)], c)

(* Bus::tick.                                                              *)
bus_tick(b, cycles) ==
    LET c == base_cycles(b, cycles)
    IN serial_tick(
          [tick_hdma(ppu_tick(tick_oam_dma(
              timer_tick([b EXCEPT !.cart.mbc = mbc_tick(@, c)], c), c), c))
             EXCEPT !.apu = apu_tick(@, c)], c)

----------------------------------------------------------------------------
(* cpu/cpu.rs and cpu/ops.rs.  A machine m is [cpu |-> .., bus |-> ..].    *)

OP_NOP == 0
OP_STOP == 16
OP_JR == 24
OP_INC_A == 60
OP_LD_A_D8 == 62
OP_HALT == 118
OP_JP_A16 == 195
OP_RETI == 217
OP_LDH_A8_A == 224
OP_LD_A16_A == 234
OP_LDH_A_A8 == 240
OP_DI == 243
OP_EI == 251

CpuNew ==
    [a |-> 0, f |-> 0, b |-> 0, c |-> 0, d |-> 0, e |-> 0, h |-> 0, l |-> 0,
     sp |-> 0, pc |-> 0, ime |-> FALSE, halted |-> FALSE,
     ei_pending |-> FALSE, halt_bug |-> FALSE, step_cycles |-> 0]

tick_mcycle(m) ==
    [m EXCEPT !.bus = bus_tick(m.bus, 4), !.cpu.step_cycles = m.cpu.step_cycles + 4]

tick_idle(m, cycles) ==
    [m EXCEPT !.bus = bus_tick(m.bus, cycles), !.cpu.step_cycles = m.cpu.step_cycles + cycles]

(* A faulty variant of finish_step that leaves out the idle cycles.         *)
finish_step_unpadded(m, target_cycles) == m

finish_step(m, target_cycles) ==
    IF m.cpu.step_cycles < target_cycles
    THEN tick_idle(m, target_cycles - m.cpu.step_cycles)
    ELSE m

(* Cpu::read8: [m |-> the machine after the access, v |-> the byte].       *)
cpu_read8(m, addr) ==
    LET r == read8(m.bus, addr)
    IN [m |-> tick_mcycle([m EXCEPT !.bus = r.b]), v |-> r.v]

cpu_write8(m, addr, val) ==
    tick_mcycle([m EXCEPT !.bus = write8(m.bus, addr, val)])

(* A faulty variant of fetch8 that ignores the halt_bug latch.              *)
fetch8_always_advancing(m) ==
    LET fetched(r) ==
            [m |-> [r.m EXCEPT !.cpu.halt_bug = FALSE, !.cpu.pc = U16(r.m.cpu.pc + 1)],
             v |-> r.v]
    IN fetched(cpu_read8(m, m.cpu.pc))

fetch8(m) ==
    LET fetched(r) ==
            [m |-> IF r.m.cpu.halt_bug
                   THEN [r.m EXCEPT !.cpu.halt_bug = FALSE]
                   ELSE [r.m EXCEPT !.cpu.pc = U16(r.m.cpu.pc + 1)],
             v |-> r.v]
    IN fetched(cpu_read8(m, m.cpu.pc))

(* Cpu::fetch16: the low byte, then the high byte.                         *)
fetch16(m) ==
    LET joined(lo, f) == [m |-> f.m, v |-> f.v * 256 + lo]
        high(f) == joined(f.v, fetch8(f.m))
    IN high(fetch8(m))

push16(m, v) ==
    LET sp1 == U16(m.cpu.sp - 1 + 65536)
        sp2 == U16(sp1 - 1 + 65536)
        low(m1) == cpu_write8([m1 EXCEPT !.cpu.sp = sp2], sp2, v % 256)
    IN low(cpu_write8([m EXCEPT !.cpu.sp = sp1], sp1, v \div 256))

pop16(m) ==
    LET popped(lo, hi) ==
            [m |-> [hi.m EXCEPT !.cpu.sp = U16(hi.m.cpu.sp + 1)], v |-> hi.v * 256 + lo.v]
        high(lo) ==
            popped(lo, cpu_read8([lo.m EXCEPT !.cpu.sp = U16(m.cpu.sp + 1)],
                                 U16(m.cpu.sp + 1)))
    IN high(cpu_read8(m, m.cpu.sp))

set_flag(c, mask, on) ==
    [c EXCEPT !.f = BitAnd(IF on THEN BitOr(c.f, mask) ELSE ClearBits(c.f, mask), 240)]

FlagZ == 128
FlagN == 64
FlagH == 32
FlagC == 16

flag(c, mask) == BitAnd(c.f, mask) # 0

set_flags(c, z, n, h, cy) ==
    set_flag(set_flag(set_flag(set_flag(c, FlagZ, z), FlagN, n), FlagH, h), FlagC, cy)

(* The register pairs and their setters.                                   *)
af(c) == (c.a * 256) + BitAnd(c.f, 240)

(* Variant: F takes the whole low byte.                                    *)
set_af_unmasked(c, v) == [c EXCEPT !.a = v \div 256, !.f = v % 256]

set_af(c, v) == [c EXCEPT !.a = v \div 256, !.f = BitAnd(v % 256, 240)]

bc(c) == (c.b * 256) + c.c

set_bc(c, v) == [c EXCEPT !.b = v \div 256, !.c = v % 256]

de(c) == (c.d * 256) + c.e

set_de(c, v) == [c EXCEPT !.d = v \div 256, !.e = v % 256]

hl(c) == (c.h * 256) + c.l

set_hl(c, v) == [c EXCEPT !.h = v \div 256, !.l = v % 256]

(* r8_from_code / decode_r8: the register of a 3-bit code; "hl" is (HL).   *)
r8_from_code(code) == <<"b", "c", "d", "e", "h", "l", "hl", "a">>[(code % 8) + 1]

HlInd == "hl"

(* Cpu::read_r8: [m, v].                                                   *)
read_r8(m, r) ==
    IF r = HlInd THEN cpu_read8(m, hl(m.cpu)) ELSE [m |-> m, v |-> m.cpu[r]]

(* Cpu::write_r8.                                                          *)
write_r8(m, r, v) ==
    IF r = HlInd THEN cpu_write8(m, hl(m.cpu), v) ELSE [m EXCEPT !.cpu[r] = v]

(* alu_add and alu_sub: [c |-> the CPU with its flags set, v |-> result].  *)
alu_add(c, a, b, carry_in) ==
    [c |-> set_flags(c, (a + b + carry_in) % 256 = 0, FALSE,
                     (a % 16) + (b % 16) + carry_in > 15, a + b + carry_in > 255),
     v |-> (a + b + carry_in) % 256]

alu_sub(c, a, b, carry_in) ==
    [c |-> set_flags(c, (a - b - carry_in + 512) % 256 = 0, TRUE,
                     (a % 16) < (b % 16) + carry_in, a < b + carry_in),
     v |-> (a - b - carry_in + 512) % 256]

(* The eight operations of 0x80..=0xBF and of the immediate forms, on A.   *)
alu(c, op, v) ==
    LET carry == IF flag(c, FlagC) THEN 1 ELSE 0
        into_a(r) == [r.c EXCEPT !.a = r.v]
        logic(res, h) == set_flags([c EXCEPT !.a = res], res = 0, FALSE, h, FALSE)
    IN CASE op = 0 -> into_a(alu_add(c, c.a, v, 0))
         [] op = 1 -> into_a(alu_add(c, c.a, v, carry))
         [] op = 2 -> into_a(alu_sub(c, c.a, v, 0))
         [] op = 3 -> into_a(alu_sub(c, c.a, v, carry))
         [] op = 4 -> logic(BitAnd(c.a, v), TRUE)
         [] op = 5 -> logic(BitXor(c.a, v), FALSE)
         [] op = 6 -> logic(BitOr(c.a, v), FALSE)
         [] OTHER -> alu_sub(c, c.a, v, 0).c

cond(c, opcode) ==
    CASE opcode \in {32, 192, 194, 196} -> ~flag(c, FlagZ)
      [] opcode \in {40, 200, 202, 204} -> flag(c, FlagZ)
      [] opcode \in {48, 208, 210, 212} -> ~flag(c, FlagC)
      [] opcode \in {56, 216, 218, 220} -> flag(c, FlagC)
      [] OTHER -> TRUE

(* An i8 from its byte.                                                    *)
I8(v) == IF v >= 128 THEN v - 256 ELSE v

jr(c, off) == [c EXCEPT !.pc = U16(65536 + c.pc + off)]

daa(c) ==
    LET n == flag(c, FlagN)
        h == flag(c, FlagH)
        cy == flag(c, FlagC)
        low == IF n THEN h ELSE (h \/ c.a % 16 > 9)
        high == IF n THEN cy ELSE (cy \/ c.a > 153)
        adjust == (IF low THEN 6 ELSE 0) + (IF high THEN 96 ELSE 0)
        a == IF n THEN (c.a - adjust + 256) % 256 ELSE (c.a + adjust) % 256
        c1 == set_flag([c EXCEPT !.a = a], FlagZ, a = 0)
    IN set_flag(set_flag(c1, FlagH, FALSE), FlagC, high)

(* Cpu::service_interrupt: [m |-> the machine after the dispatch, ret |->  *)
(* the cycles returned].                                                   *)
service_interrupt(m, pending) ==
    LET intr == from_pending_mask(pending)
        m1 == [m EXCEPT !.bus.iflag = ClearBits(m.bus.iflag, InterruptBit(intr)),
                        !.cpu.ime = FALSE, !.cpu.halted = FALSE]
        jump(m2) == finish_step([m2 EXCEPT !.cpu.pc = InterruptVector(intr)], 20)
    IN [m |-> jump(push16(m1, m.cpu.pc)), ret |-> 20]

(* A faulty variant of exec_halt that suspends whatever is pending.         *)
exec_halt_always_suspends(m) ==
    [m |-> [m EXCEPT !.cpu.halted = TRUE], cycles |-> 4]

(* ops::exec, opcode 0x76 (HALT).                                          *)
exec_halt(m) ==
    IF ~m.cpu.ime /\ pending_mask(m.bus.ie, m.bus.iflag) # 0
    THEN [m |-> [m EXCEPT !.cpu.halt_bug = TRUE], cycles |-> 4]
    ELSE [m |-> [m EXCEPT !.cpu.halted = TRUE], cycles |-> 4]

(* ops::exec, opcode 0xF3 (DI).                                            *)
exec_di(m) ==
    [m |-> [m EXCEPT !.cpu.ime = FALSE, !.cpu.ei_pending = FALSE], cycles |-> 4]

(* A faulty variant of exec_ei that enables IME at once.                   *)
exec_ei_at_once(m) ==
    [m |-> [m EXCEPT !.cpu.ime = TRUE], cycles |-> 4]

(* ops::exec, opcode 0xFB (EI).                                            *)
exec_ei(m) ==
    [m |-> [m EXCEPT !.cpu.ei_pending = TRUE], cycles |-> 4]

(* ops::exec: [m |-> the machine after the instruction's own accesses,     *)
(* cycles |-> the total it returns].                                       *)
(* The Cpu methods through which an instruction reaches the bus are handed *)
(* to the decoder as the operators of run, so that each is written once.   *)
exec(m, opcode) ==
    LET run(Fetch8(_), Fetch16(_), Read8(_, _), Write8(_, _, _),
            ReadR8(_, _), WriteR8(_, _, _), Push16(_, _), Pop16(_)) ==
        LET c == m.cpu
            done(m1, n) == [m |-> m1, cycles |-> n]
            with(c1, n) == [m |-> [m EXCEPT !.cpu = c1], cycles |-> n]
            r_hi == r8_from_code((opcode \div 8) % 8)
            r_lo == r8_from_code(opcode % 8)
            rr == CASE opcode \div 16 = 0 -> bc(c) [] opcode \div 16 = 1 -> de(c)
                    [] opcode \div 16 = 2 -> hl(c) [] OTHER -> c.sp
        IN CASE opcode = OP_NOP -> done(m, 4)
             [] opcode = OP_STOP ->
                  LET switched(f, s) ==
                          [m |-> [f.m EXCEPT !.bus = s.b, !.cpu.halted = ~s.ok], cycles |-> 8]
                      stop(f) == switched(f, try_cgb_speed_switch(f.m.bus))
                  IN stop(Fetch8(m))
             [] opcode \in {1, 17, 33, 49} ->
                  LET load(f) ==
                          done([f.m EXCEPT !.cpu =
                                   CASE opcode = 1 -> set_bc(@, f.v) [] opcode = 17 -> set_de(@, f.v)
                                     [] opcode = 33 -> set_hl(@, f.v)
                                     [] OTHER -> [@ EXCEPT !.sp = f.v]], 12)
                  IN load(Fetch16(m))
             [] opcode = 8 ->
                  LET high(f, m1) == Write8(m1, U16(f.v + 1), f.m.cpu.sp \div 256)
                      store(f) == done(high(f, Write8(f.m, f.v, f.m.cpu.sp % 256)), 20)
                  IN store(Fetch16(m))
             [] opcode \in {2, 18} ->
                  done(Write8(m, IF opcode = 2 THEN bc(c) ELSE de(c), c.a), 8)
             [] opcode \in {10, 26} ->
                  LET load(r) == done([r.m EXCEPT !.cpu.a = r.v], 8)
                  IN load(Read8(m, IF opcode = 10 THEN bc(c) ELSE de(c)))
             [] opcode \in {34, 50} ->
                  LET moved(m1) ==
                          [m1 EXCEPT !.cpu = set_hl(@, U16(hl(c) + (IF opcode = 34 THEN 1 ELSE 65535)))]
                  IN done(moved(Write8(m, hl(c), c.a)), 8)
             [] opcode \in {42, 58} ->
                  LET load(r) ==
                          done([r.m EXCEPT !.cpu =
                                   set_hl([@ EXCEPT !.a = r.v],
                                          U16(hl(c) + (IF opcode = 42 THEN 1 ELSE 65535)))], 8)
                  IN load(Read8(m, hl(c)))
             [] opcode = OP_LD_A16_A ->
                  LET store(f) == done(Write8(f.m, f.v, f.m.cpu.a), 16)
                  IN store(Fetch16(m))
             [] opcode = 250 ->
                  LET loaded(r) == done([r.m EXCEPT !.cpu.a = r.v], 16)
                      load(f) == loaded(Read8(f.m, f.v))
                  IN load(Fetch16(m))
             [] opcode = OP_LDH_A8_A ->
                  LET store(f) == done(Write8(f.m, 65280 + f.v, f.m.cpu.a), 12)
                  IN store(Fetch8(m))
             [] opcode = OP_LDH_A_A8 ->
                  LET loaded(r) == done([r.m EXCEPT !.cpu.a = r.v], 12)
                      load(f) == loaded(Read8(f.m, 65280 + f.v))
                  IN load(Fetch8(m))
             [] opcode = 226 -> done(Write8(m, 65280 + c.c, c.a), 8)
             [] opcode = 242 ->
                  LET load(r) == done([r.m EXCEPT !.cpu.a = r.v], 8)
                  IN load(Read8(m, 65280 + c.c))
             [] opcode \in {6, 14, 22, 30, 38, 46, 54, 62} ->
                  LET load(f) == done(WriteR8(f.m, r_hi, f.v), IF r_hi = HlInd THEN 12 ELSE 8)
                  IN load(Fetch8(m))
             [] opcode = OP_HALT -> exec_halt(m)
             [] opcode \in 64..127 /\ opcode # OP_HALT ->
                  LET move(r) ==
                          done(WriteR8(r.m, r_hi, r.v),
                               IF r_hi = HlInd \/ r_lo = HlInd THEN 8 ELSE 4)
                  IN move(ReadR8(m, r_lo))
             [] opcode \in {4, 12, 20, 28, 36, 44, 52, 60} ->
                  LET flags(m1, v) ==
                          [m1 EXCEPT !.cpu = set_flag(set_flag(set_flag(@, FlagZ, U8(v + 1) = 0),
                                                               FlagN, FALSE), FlagH, v % 16 = 15)]
                      inc(r) == done(flags(WriteR8(r.m, r_hi, U8(r.v + 1)), r.v),
                                     IF r_hi = HlInd THEN 12 ELSE 4)
                  IN inc(ReadR8(m, r_hi))
             [] opcode \in {5, 13, 21, 29, 37, 45, 53, 61} ->
                  LET flags(m1, v) ==
                          [m1 EXCEPT !.cpu = set_flag(set_flag(set_flag(@, FlagZ, U8(v + 255) = 0),
                                                               FlagN, TRUE), FlagH, v % 16 = 0)]
                      dec(r) == done(flags(WriteR8(r.m, r_hi, U8(r.v + 255)), r.v),
                                     IF r_hi = HlInd THEN 12 ELSE 4)
                  IN dec(ReadR8(m, r_hi))
             [] opcode \in {3, 19, 35, 51, 11, 27, 43, 59} ->
                  LET v == U16(rr + (IF opcode % 16 = 3 THEN 1 ELSE 65535))
                  IN with(CASE opcode \div 16 = 0 -> set_bc(c, v) [] opcode \div 16 = 1 -> set_de(c, v)
                            [] opcode \div 16 = 2 -> set_hl(c, v) [] OTHER -> [c EXCEPT !.sp = v], 8)
             [] opcode \in {9, 25, 41, 57} ->
                  LET c1 == set_flag(c, FlagN, FALSE)
                      c2 == set_flag(c1, FlagH, (hl(c) % 4096) + (rr % 4096) > 4095)
                      c3 == set_flag(c2, FlagC, hl(c) + rr > 65535)
                  IN with(set_hl(c3, U16(hl(c) + rr)), 8)
             [] opcode \in 128..191 ->
                  LET op(r) == done([r.m EXCEPT !.cpu = alu(@, (opcode \div 8) % 8, r.v)],
                                    IF r_lo = HlInd THEN 8 ELSE 4)
                  IN op(ReadR8(m, r_lo))
             [] opcode \in {198, 206, 214, 222, 230, 238, 246, 254} ->
                  LET op(f) == done([f.m EXCEPT !.cpu = alu(@, (opcode \div 8) % 8, f.v)], 8)
                  IN op(Fetch8(m))
             [] opcode \in {OP_JR, 32, 40, 48, 56} ->
                  LET jump(f) ==
                          IF opcode = OP_JR \/ cond(f.m.cpu, opcode)
                          THEN done([f.m EXCEPT !.cpu = jr(@, I8(f.v))], 12)
                          ELSE done(f.m, 8)
                  IN jump(Fetch8(m))
             [] opcode = OP_JP_A16 ->
                  LET jump(f) == done([f.m EXCEPT !.cpu.pc = f.v], 16)
                  IN jump(Fetch16(m))
             [] opcode = 233 -> with([c EXCEPT !.pc = hl(c)], 4)
             [] opcode \in {194, 202, 210, 218} ->
                  LET jump(f) ==
                          IF cond(f.m.cpu, opcode) THEN done([f.m EXCEPT !.cpu.pc = f.v], 16)
                          ELSE done(f.m, 12)
                  IN jump(Fetch16(m))
             [] opcode \in {205, 196, 204, 212, 220} ->
                  LET pushed(f, m1) == done([m1 EXCEPT !.cpu.pc = f.v], 24)
                      call(f) ==
                          IF opcode = 205 \/ cond(f.m.cpu, opcode)
                          THEN pushed(f, Push16(f.m, f.m.cpu.pc))
                          ELSE done(f.m, 12)
                  IN call(Fetch16(m))
             [] opcode = 201 ->
                  LET ret(p) == done([p.m EXCEPT !.cpu.pc = p.v], 16)
                  IN ret(Pop16(m))
             [] opcode \in {192, 200, 208, 216} ->
                  LET ret(p) == done([p.m EXCEPT !.cpu.pc = p.v], 20)
                  IN IF cond(c, opcode) THEN ret(Pop16(m)) ELSE done(m, 8)
             [] opcode = OP_RETI ->
                  LET ret(p) == done([p.m EXCEPT !.cpu.pc = p.v, !.cpu.ime = TRUE], 16)
                  IN ret(Pop16(m))
             [] opcode \in {199, 207, 215, 223, 231, 239, 247, 255} ->
                  LET jump(m1) == done([m1 EXCEPT !.cpu.pc = BitAnd(opcode, 56)], 16)
                  IN jump(Push16(m, c.pc))
             [] opcode \in {197, 213, 229, 245} ->
                  done(Push16(m, CASE opcode = 197 -> bc(c) [] opcode = 213 -> de(c)
                                   [] opcode = 229 -> hl(c) [] OTHER -> af(c)), 16)
             [] opcode \in {193, 209, 225, 241} ->
                  LET pop(p) ==
                          done([p.m EXCEPT !.cpu =
                                   CASE opcode = 193 -> set_bc(@, p.v) [] opcode = 209 -> set_de(@, p.v)
                                     [] opcode = 225 -> set_hl(@, p.v) [] OTHER -> set_af(@, p.v)], 12)
                  IN pop(Pop16(m))
             [] opcode = 39 -> with(daa(c), 4)
             [] opcode = 47 ->
                  with(set_flag(set_flag([c EXCEPT !.a = 255 - c.a], FlagN, TRUE), FlagH, TRUE), 4)
             [] opcode = 55 ->
                  with(set_flag(set_flag(set_flag(c, FlagN, FALSE), FlagH, FALSE), FlagC, TRUE), 4)
             [] opcode = 63 ->
                  with(set_flag(set_flag(set_flag(c, FlagN, FALSE), FlagH, FALSE), FlagC,
                                ~flag(c, FlagC)), 4)
             [] opcode = OP_DI -> exec_di(m)
             [] opcode = OP_EI -> exec_ei(m)
             [] opcode = 7 ->
                  with(set_flags([c EXCEPT !.a = ((c.a * 2) % 256) + (c.a \div 128)],
                                 FALSE, FALSE, FALSE, c.a >= 128), 4)
             [] opcode = 15 ->
                  with(set_flags([c EXCEPT !.a = (c.a \div 2) + ((c.a % 2) * 128)],
                                 FALSE, FALSE, FALSE, c.a % 2 = 1), 4)
             [] opcode = 23 ->
                  with(set_flags([c EXCEPT !.a = ((c.a * 2) % 256)
                                                 + (IF flag(c, FlagC) THEN 1 ELSE 0)],
                                 FALSE, FALSE, FALSE, c.a >= 128), 4)
             [] opcode = 31 ->
                  with(set_flags([c EXCEPT !.a = (c.a \div 2)
                                                 + (IF flag(c, FlagC) THEN 128 ELSE 0)],
                                 FALSE, FALSE, FALSE, c.a % 2 = 1), 4)
             [] opcode \in {232, 248} ->
                  LET add(f) ==
                          LET sp == f.m.cpu.sp
                              res == U16(65536 + sp + I8(f.v))
                              c1 == set_flags(f.m.cpu, FALSE, FALSE,
                                              (sp % 16) + (f.v % 16) > 15, (sp % 256) + f.v > 255)
                          IN IF opcode = 232
                             THEN done([f.m EXCEPT !.cpu = [c1 EXCEPT !.sp = res]], 16)
                             ELSE done([f.m EXCEPT !.cpu = set_hl(c1, res)], 12)
                  IN add(Fetch8(m))
             [] opcode = 249 -> with([c EXCEPT !.sp = hl(c)], 8)
             [] OTHER -> done(m, 4)
    IN run(fetch8, fetch16, cpu_read8, cpu_write8, read_r8, write_r8, push16, pop16)

(* Variant: the cost in M-cycles, not in clock cycles.                     *)
cycles_for_target_mcycles(r) == IF r = HlInd THEN 4 ELSE 2

(* cb_ops::cycles_for_target and bit_cycles_for_target.                    *)
cycles_for_target(r) == IF r = HlInd THEN 16 ELSE 8

bit_cycles_for_target(r) == IF r = HlInd THEN 12 ELSE 8

(* cb_ops::exec, the instructions after the 0xCB prefix.                   *)
(* The Cpu methods through which an instruction reaches the bus are handed *)
(* to the decoder as the operators of run, so that each is written once.   *)
cb_exec(m, opcode) ==
    LET run(ReadR8(_, _), WriteR8(_, _, _)) ==
        LET r == r8_from_code(opcode)
            bit == (opcode \div 8) % 8
            carry_in(c) == IF flag(c, FlagC) THEN 1 ELSE 0
            shifted(c, v) ==
                CASE bit = 0 -> <<((v * 2) % 256) + (v \div 128), v >= 128>>
                  [] bit = 1 -> <<(v \div 2) + ((v % 2) * 128), v % 2 = 1>>
                  [] bit = 2 -> <<((v * 2) % 256) + carry_in(c), v >= 128>>
                  [] bit = 3 -> <<(v \div 2) + (carry_in(c) * 128), v % 2 = 1>>
                  [] bit = 4 -> <<(v * 2) % 256, v >= 128>>
                  [] bit = 5 -> <<(v \div 2) + ((v \div 128) * 128), v % 2 = 1>>
                  [] bit = 6 -> <<(v \div 16) + ((v % 16) * 16), FALSE>>
                  [] OTHER -> <<v \div 2, v % 2 = 1>>
            rotate(x, s) ==
                [m |-> [WriteR8(x.m, r, s[1]) EXCEPT
                           !.cpu = set_flags(@, s[1] = 0, FALSE, FALSE, s[2])],
                 cycles |-> cycles_for_target(r)]
            test(x) ==
                [m |-> [x.m EXCEPT !.cpu = set_flag(set_flag(set_flag(@, FlagZ, Bit(x.v, bit) = 0),
                                                             FlagN, FALSE), FlagH, TRUE)],
                 cycles |-> bit_cycles_for_target(r)]
            res(x) == [m |-> WriteR8(x.m, r, ClearBits(x.v, 2 ^ bit)),
                       cycles |-> cycles_for_target(r)]
            set(x) == [m |-> WriteR8(x.m, r, BitOr(x.v, 2 ^ bit)),
                       cycles |-> cycles_for_target(r)]
            shift(x) == rotate(x, shifted(x.m.cpu, x.v))
        IN IF opcode <= 63 THEN shift(ReadR8(m, r))
           ELSE IF opcode <= 127 THEN test(ReadR8(m, r))
           ELSE IF opcode <= 191 THEN res(ReadR8(m, r))
           ELSE set(ReadR8(m, r))
    IN run(read_r8, write_r8)

OP_CB == 203

(* The instruction path of Cpu::step, after the halt and interrupt checks. *)
(* The parts of Cpu::step after the opcode fetch f: the decoding, with the  *)
(* second fetch of a 0xCB opcode, then the delayed EI and the idle cycles  *)
(* up to the count the instruction returned.                               *)
cb_prefixed(f) == cb_exec(f.m, f.v)

decoded(f) ==
    [opcode |-> f.v,
     x |-> IF f.v = OP_CB THEN cb_prefixed(fetch8(f.m)) ELSE exec(f.m, f.v)]

executed(enable_ime_after, d) ==
    [m |-> finish_step(IF enable_ime_after /\ d.opcode # OP_DI
                       THEN [d.x.m EXCEPT !.cpu.ime = TRUE]
                       ELSE d.x.m, d.x.cycles),
     ret |-> d.x.cycles, kind |-> "exec", opcode |-> d.opcode]

step_execute(m) ==
    executed(m.cpu.ei_pending, decoded(fetch8([m EXCEPT !.cpu.ei_pending = FALSE])))

(* Cpu::step: [m |-> the machine after the step, ret |-> the cycles        *)
(* returned, kind |-> "idle", "interrupt" or "exec", opcode |-> the opcode *)
(* fetched or the index of the interrupt taken].  A halted CPU with        *)
(* nothing pending idles for 4 cycles; a pending interrupt with IME set is *)
(* dispatched, halted or not; a halted CPU with a pending interrupt and    *)
(* IME clear wakes with halt_bug set and goes on to execute.               *)
step(m0) ==
    LET m == [m0 EXCEPT !.cpu.step_cycles = 0]
        pending == pending_mask(m.bus.ie, m.bus.iflag)
    IN IF m.cpu.halted /\ pending = 0
       THEN [m |-> tick_idle(m, 4), ret |-> 4, kind |-> "idle", opcode |-> -1]
       ELSE IF m.cpu.ime /\ pending # 0
       THEN [m |-> service_interrupt(m, pending).m, ret |-> 20, kind |-> "interrupt",
             opcode |-> from_pending_mask(pending)]
       ELSE step_execute(IF m.cpu.halted
                         THEN [m EXCEPT !.cpu.halted = FALSE, !.cpu.halt_bug = TRUE]
                         ELSE m)

----------------------------------------------------------------------------
(* What the last action did: the operation, its address and value, the     *)
(* byte it returned (-1 when it returns none) and the base cycles it took. *)

NoOp == [op |-> "none", addr |-> -1, val |-> -1, ret |-> -1, cost |-> 0]

----------------------------------------------------------------------------
(* SpecDma: the CPU's memory accesses and idle cycles around an OAM DMA.   *)
(* The LCD is off.  hist.now counts base cycles since Init, hist.dma_t the *)
(* base cycles since the write to 0xFF46 that started the transfer (-1     *)
(* before any), hist.page its page and hist.oam0 the OAM at that write.    *)

MaxDmaCycles == 652

DmaStartBy == 4

DmaSwitchBy == 16

AddrWram == 49152
AddrOam == 65024
AddrDma == 65350
AddrKey1 == 65357
AddrHram == 65408
AddrIe == 65535

DmaReadAddrs == {AddrWram, AddrOam, AddrHram, AddrIe}

DmaWrites ==
    {<<AddrWram, 153>>, <<AddrHram, 86>>,
     <<AddrDma, 192>>, <<AddrDma, 208>>, <<AddrKey1, 1>>}

IdleCycles == {4, 8}

(* The preset of the DMA tests: a pattern in the two source pages, a byte  *)
(* in HRAM, IE, and two bytes already in OAM.                              *)
DmaPreset(mode) ==
    [BusNew(mode, EmptyMem) EXCEPT
        !.wram = [i \in (0..159) \cup (4096..4255) |->
                     IF i < 4096 THEN U8(i + 1) ELSE 255 - (i - 4096)],
        !.hram = Put(EmptyMem, 0, 52),
        !.oam = Put(Put(EmptyMem, 5, 86), 159, 119),
        !.ie = 31]

InitDma ==
    /\ cpu = CpuNew
    /\ \E mode \in {"Dmg", "Cgb"} : bus = DmaPreset(mode)
    /\ last = NoOp
    /\ hist = [now |-> 0, dma_t |-> -1, page |-> -1, oam0 |-> EmptyMem]

(* hist after an action that took the bus from b0 (after the access, before*)
(* the tick) having cost c base cycles; started: the access started a DMA. *)
Elapse(b0, c, started, page) ==
    IF started
    THEN [now |-> hist.now + c, dma_t |-> c, page |-> page, oam0 |-> b0.oam]
    ELSE [hist EXCEPT !.now = hist.now + c,
                      !.dma_t = IF hist.dma_t < 0 THEN -1 ELSE hist.dma_t + c]

(* Cpu::read8: the bus read, then one M-cycle; limit bounds hist.now.      *)
CpuRead8(addr, limit) ==
    LET r == read8(bus, addr)
        c == base_cycles(r.b, 4)
    IN /\ hist.now + c <= limit
       /\ bus' = bus_tick(r.b, 4)
       /\ last' = [op |-> "read", addr |-> addr, val |-> -1, ret |-> r.v, cost |-> c]
       /\ hist' = Elapse(r.b, c, FALSE, -1)
       /\ UNCHANGED cpu

(* Cpu::write8: the bus write, then one M-cycle.                           *)
CpuWrite8(addr, val, limit) ==
    LET b1 == write8(bus, addr, val)
        c == base_cycles(b1, 4)
        started == addr = AddrDma /\ b1.oam_dma # bus.oam_dma
    IN /\ hist.now + c <= limit
       /\ bus' = bus_tick(b1, 4)
       /\ last' = [op |-> "write", addr |-> addr, val |-> val, ret |-> -1, cost |-> c]
       /\ hist' = Elapse(b1, c, started, val)
       /\ UNCHANGED cpu

(* Cpu::tick_idle.                                                         *)
TickIdle(cycles, limit) ==
    LET c == base_cycles(bus, cycles)
    IN /\ hist.now + c <= limit
       /\ bus' = bus_tick(bus, cycles)
       /\ last' = [op |-> "idle", addr |-> -1, val |-> -1, ret |-> -1, cost |-> c]
       /\ hist' = Elapse(bus, c, FALSE, -1)
       /\ UNCHANGED cpu

(* The speed switch of STOP (its two fetches are reads of their own).      *)
SpeedSwitch(limit) ==
    /\ hist.now <= limit
    /\ try_cgb_speed_switch(bus).ok
    /\ bus' = try_cgb_speed_switch(bus).b
    /\ last' = [op |-> "stop", addr |-> -1, val |-> -1, ret |-> -1, cost |-> 0]
    /\ UNCHANGED <<cpu, hist>>

(* A run in which no transfer has started by DmaStartBy ends there.        *)
DmaRunning == hist.dma_t >= 0 \/ hist.now <= DmaStartBy

NextDma ==
    \/ \E addr \in DmaReadAddrs : DmaRunning /\ CpuRead8(addr, MaxDmaCycles)
    \/ \E w \in DmaWrites :
          /\ DmaRunning
          /\ w[1] = AddrDma => hist.now <= DmaStartBy
          /\ CpuWrite8(w[1], w[2], MaxDmaCycles)
    \/ \E cycles \in IdleCycles : DmaRunning /\ TickIdle(cycles, MaxDmaCycles)
    \/ SpeedSwitch(DmaSwitchBy)

SpecDma == InitDma /\ [][NextDma]_vars

HramRange == 65408..65534

(* C1: while an OAM DMA transfer is in progress a CPU read outside HRAM    *)
(* (0xFF80-0xFFFE) returns 0xFF and a CPU write outside HRAM changes no    *)
(* state (the step equals the 4-cycle tick alone); HRAM reads return the   *)
(* stored byte and HRAM writes store theirs at all times; once the         *)
(* transfer has finished, WRAM and OAM reads return the stored byte and a  *)
(* WRAM write stores its byte again.                                       *)
C1_OamDmaBlocksCpuBus ==
    [][/\ (last'.op = "read" /\ bus.oam_dma.active /\ last'.addr \notin HramRange)
            => last'.ret = 255
       /\ (last'.op = "write" /\ bus.oam_dma.active /\ last'.addr \notin HramRange)
            => bus' = bus_tick(bus, 4)
       /\ (last'.op = "read" /\ last'.addr \in HramRange)
            => last'.ret = Get(bus.hram, last'.addr - 65408)
       /\ (last'.op = "write" /\ last'.addr \in HramRange)
            => Get(bus'.hram, last'.addr - 65408) = last'.val
       /\ (last'.op = "read" /\ ~bus.oam_dma.active /\ last'.addr = AddrWram)
            => last'.ret = Get(bus.wram, 0)
       /\ (last'.op = "read" /\ ~bus.oam_dma.active /\ last'.addr = AddrOam)
            => last'.ret = Get(bus.oam, 0)
       /\ (last'.op = "write" /\ ~bus.oam_dma.active /\ last'.addr = AddrWram)
            => Get(bus'.wram, 0) = last'.val]_vars

(* A read of IE (0xFFFF, outside HRAM) returned 0xFF in the middle of a    *)
(* transfer although IE holds 0x1F.                                        *)
C1_Witness ==
    /\ last.op = "read" /\ last.addr = AddrIe /\ last.ret = 255
    /\ bus.oam_dma.active /\ bus.oam_dma.next_byte > 0
    /\ bus.ie = 31

(* C2: after a write of P to 0xFF46, with e the base cycles elapsed since, *)
(* no OAM byte is written while e < 4, then byte k has been copied from    *)
(* (P << 8) + k to OAM[k] exactly when 4 * (k + 1) + 4 <= e, every other   *)
(* OAM byte keeps its value, and the transfer is active exactly while      *)
(* e < 644: at 644 all 0xA0 bytes are written and it is inactive.  (The    *)
(* state is looked at after every step that began before base cycle 644.)  *)
C2_OamDmaTiming ==
    (hist.dma_t >= 0 /\ hist.dma_t - last.cost < 644) =>
        LET n == IF hist.dma_t < 4 THEN 0 ELSE Min(160, (hist.dma_t - 4) \div 4)
        IN /\ bus.oam_dma.active = (hist.dma_t < 644)
           /\ \A k \in 0..159 :
                 Get(bus.oam, k) =
                    IF k < n THEN Get(bus.wram, (hist.page - 192) * 256 + k)
                    ELSE Get(hist.oam0, k)

(* Exactly 644 base cycles after the write of 0xC0 the last byte is in     *)
(* OAM and the transfer is over.                                           *)
C2_Witness ==
    /\ hist.dma_t = 644 /\ hist.page = 192
    /\ ~bus.oam_dma.active
    /\ Get(bus.oam, 159) = 160 /\ Get(hist.oam0, 159) = 119

----------------------------------------------------------------------------
(* SpecPpu: CPU accesses to VRAM and OAM while the PPU runs.  The LCD is   *)
(* switched on by the first write (LCDC = 0x80); line 0 and the first      *)
(* VBlank line are walked M-cycle by M-cycle, the lines between them a     *)
(* line at a time.                                                         *)

MaxPpuCycles == 66120

PpuStartBy == 0

AddrVram == 32768
AddrOamRow18 == 65168
AddrLcdc == 65344

PpuReadAddrs == {AddrVram, AddrOamRow18}

PpuWrites == {<<AddrVram, 165>>, <<AddrOamRow18, 90>>, <<AddrLcdc, 128>>}

(* A byte in VRAM and OAM row 18 (bytes 144..151) filled.                  *)
PpuPreset(mode) ==
    [BusNew(mode, EmptyMem) EXCEPT
        !.vram = Put(EmptyMem, 0, 60),
        !.oam = [i \in 144..151 |-> 17 * (i - 143)]]

InitPpu ==
    /\ cpu = CpuNew
    /\ \E mode \in {"Dmg", "Cgb"} : bus = PpuPreset(mode)
    /\ last = NoOp
    /\ hist = [now |-> 0, dma_t |-> -1, page |-> -1, oam0 |-> EmptyMem]

(* A run in which the LCD is not on by PpuStartBy ends there; lines 1 to   *)
(* 143 are crossed a line at a time, from the dot the first line began at.  *)
PpuWalk ==
    /\ bus.ppu.lcd_enabled \/ hist.now <= PpuStartBy
    /\ bus.ppu.ly = 0 \/ bus.ppu.ly >= VBlankLine

PpuLineJump ==
    /\ bus.ppu.lcd_enabled /\ bus.ppu.dots = EnableDots + 4 /\ bus.ppu.ly < VBlankLine
    /\ TickIdle(DotsPerLine, MaxPpuCycles)

NextPpu ==
    \/ \E addr \in PpuReadAddrs : PpuWalk /\ CpuRead8(addr, MaxPpuCycles)
    \/ \E w \in PpuWrites :
          /\ PpuWalk
          /\ w[1] = AddrLcdc => hist.now <= PpuStartBy
          /\ CpuWrite8(w[1], w[2], MaxPpuCycles)
    \/ PpuWalk /\ TickIdle(4, MaxPpuCycles)
    \/ PpuLineJump

SpecPpu == InitPpu /\ [][NextPpu]_vars

OamRange == 65024..65183

VramRange == 32768..40959

Row(k) == k \div 8

(* C3 as stated: with the LCD on, in mode 3 a VRAM read returns 0xFF and a *)
(* VRAM write leaves VRAM unchanged; in mode 2 or 3 an OAM read returns    *)
(* 0xFF and an OAM write leaves OAM unchanged; otherwise the access        *)
(* reaches memory.                                                         *)
C3_Original ==
    [][LET on == bus.ppu.lcd_enabled
           mode == bus.ppu.mode
           a == last'.addr
           vblocked == on /\ mode = 3
           oblocked == on /\ (mode = 2 \/ mode = 3)
       IN /\ (last'.op = "read" /\ a \in VramRange) =>
                last'.ret = IF vblocked THEN 255 ELSE Get(bus.vram, a - 32768)
          /\ (last'.op = "write" /\ a \in VramRange) =>
                bus'.vram = IF vblocked THEN bus.vram
                            ELSE Put(bus.vram, a - 32768, last'.val)
          /\ (last'.op = "read" /\ a \in OamRange) =>
                last'.ret = IF oblocked THEN 255 ELSE Get(bus.oam, a - 65024)
          /\ (last'.op = "write" /\ a \in OamRange) =>
                bus'.oam = IF oblocked THEN bus.oam
                           ELSE Put(bus.oam, a - 65024, last'.val)]_vars

(* C3, amended: as stated, except that on DMG an OAM write in mode 2 may   *)
(* rewrite the 8-byte OAM row the PPU is scanning (row dots / 4); every    *)
(* byte outside that row keeps its value and row 0 is never rewritten.  On *)
(* CGB, and in mode 3, a blocked OAM write leaves all of OAM unchanged.    *)
C3_PpuAccessWindows ==
    [][LET on == bus.ppu.lcd_enabled
           mode == bus.ppu.mode
           a == last'.addr
           vblocked == on /\ mode = 3
           oblocked == on /\ (mode = 2 \/ mode = 3)
           scanned == bus.ppu.dots \div 4
       IN /\ (last'.op = "read" /\ a \in VramRange) =>
                last'.ret = IF vblocked THEN 255 ELSE Get(bus.vram, a - 32768)
          /\ (last'.op = "write" /\ a \in VramRange) =>
                bus'.vram = IF vblocked THEN bus.vram
                            ELSE Put(bus.vram, a - 32768, last'.val)
          /\ (last'.op = "read" /\ a \in OamRange) =>
                last'.ret = IF oblocked THEN 255 ELSE Get(bus.oam, a - 65024)
          /\ (last'.op = "write" /\ a \in OamRange) =>
                IF ~oblocked THEN bus'.oam = Put(bus.oam, a - 65024, last'.val)
                ELSE IF bus.mode = "Dmg" /\ mode = 2
                THEN \A k \in 0..159 :
                        (Row(k) # scanned \/ Row(k) = 0) => Get(bus'.oam, k) = Get(bus.oam, k)
                ELSE bus'.oam = bus.oam]_vars

(* On DMG an OAM write at dot 72 of mode 2 (row 18 being scanned) stored   *)
(* nothing and cleared the row.                                            *)
C3_Witness ==
    /\ bus.mode = "Dmg"
    /\ last.op = "write" /\ last.addr = AddrOamRow18
    /\ bus.ppu.lcd_enabled /\ bus.ppu.mode = 2 /\ bus.ppu.dots = 76
    /\ \A k \in 144..151 : Get(bus.oam, k) = 0

----------------------------------------------------------------------------
(* SpecHdma: a CGB machine whose ROM holds a pattern of non-zero bytes     *)
(* (VRAM starts zeroed), copied to VRAM by HBlank and general-purpose DMA  *)
(* with the reset source 0x0000 and                                        *)
(* destination 0x8000.  The CPU writes HDMA5 and LCDC, reads HDMA5 and     *)
(* idles, an M-cycle at a time.                                            *)

MaxHdmaCycles == 760

HdmaLcdBy == 4

MaxHdmaBlocks == 3

AddrHdma5 == 65365

HdmaWrites == {<<AddrHdma5, 129>>, <<AddrHdma5, 0>>, <<AddrLcdc, 128>>}

HdmaWindow == 0..(16 * (MaxHdmaBlocks + 3) - 1)

InitHdma ==
    /\ cpu = CpuNew
    /\ bus = BusNew("Cgb", [i \in HdmaWindow |-> (i % 255) + 1])
    /\ last = NoOp
    /\ hist = [now |-> 0, dma_t |-> -1, page |-> -1, oam0 |-> EmptyMem]

NextHdma ==
    \/ CpuRead8(AddrHdma5, MaxHdmaCycles)
    \/ \E w \in HdmaWrites :
          /\ w[1] = AddrLcdc => hist.now <= HdmaLcdBy
          /\ w[1] = AddrHdma5 => bus.cgb_hdma_dst < 32768 + 16 * MaxHdmaBlocks
          /\ CpuWrite8(w[1], w[2], MaxHdmaCycles)
    \/ TickIdle(4, MaxHdmaCycles)

SpecHdma == InitHdma /\ [][NextHdma]_vars

(* The VRAM bytes a step changed.                                          *)
VramChanged == {k \in HdmaWindow : Get(bus'.vram, k) # Get(bus.vram, k)}

(* The step copied the 16-byte block at the source to the destination.     *)
BlockCopied ==
    \A i \in 0..15 :
        Get(bus'.vram, bus.cgb_hdma_dst - 32768 + i) = Get(bus.rom, bus.cgb_hdma_src + i)

Hdma5Write == last'.op = "write" /\ last'.addr = AddrHdma5

(* The PPU entered mode 0 during the step.                                 *)
Mode0Entry == bus.ppu.mode # 0 /\ bus'.ppu.mode = 0

(* C4 as stated: from the write that starts an HBlank DMA of n blocks on,  *)
(* a step copies one 16-byte block if the PPU enters mode 0 in it and no   *)
(* byte otherwise; after n blocks the transfer is over; HDMA5 reads the    *)
(* remaining blocks minus one while it is active and 0xFF when finished.   *)
C4_Original ==
    [][LET left == bus.cgb_hdma_blocks_remaining
           left1 == bus'.cgb_hdma_blocks_remaining
           n == (last'.val % 128) + 1
       IN /\ (Hdma5Write /\ last'.val >= 128) =>
                /\ Cardinality(VramChanged) = IF Mode0Entry THEN 16 ELSE 0
                /\ left1 = IF Mode0Entry THEN n - 1 ELSE n
                /\ bus'.cgb_hdma_active = (left1 > 0)
          /\ (bus.cgb_hdma_active /\ ~Hdma5Write) =>
                /\ Cardinality(VramChanged) = IF Mode0Entry THEN 16 ELSE 0
                /\ left1 = IF Mode0Entry THEN left - 1 ELSE left
                /\ bus'.cgb_hdma_active = (left1 > 0)
          /\ (last'.op = "read" /\ last'.addr = AddrHdma5 /\ bus.cgb_hdma_active) =>
                last'.ret = left - 1
          /\ (last'.op = "read" /\ last'.addr = AddrHdma5
                /\ ~bus.cgb_hdma_active /\ left = 0) =>
                last'.ret = 255]_vars

(* C4, amended: with the LCD on, the step that starts an HBlank DMA of n   *)
(* blocks copies one block if the PPU is in mode 0 at its end (entered in  *)
(* the step or before it) and none otherwise; every later step copies one  *)
(* block if the PPU enters mode 0 in it and no byte otherwise, so at most  *)
(* one per line; the transfer is over after n blocks.  With the LCD off    *)
(* the starting step copies all n blocks at once.  HDMA5 reads the         *)
(* remaining blocks minus one while the transfer is active and 0xFF when   *)
(* it has finished.                                                        *)
C4_HdmaBlockPerHBlank ==
    [][LET left == bus.cgb_hdma_blocks_remaining
           left1 == bus'.cgb_hdma_blocks_remaining
           n == (last'.val % 128) + 1
       IN /\ (Hdma5Write /\ last'.val >= 128) =>
                IF ~bus'.ppu.lcd_enabled
                THEN /\ Cardinality(VramChanged) = 16 * n
                     /\ left1 = 0 /\ ~bus'.cgb_hdma_active
                ELSE /\ Cardinality(VramChanged) = IF bus'.ppu.mode = 0 THEN 16 ELSE 0
                     /\ bus'.ppu.mode = 0 => BlockCopied
                     /\ left1 = IF bus'.ppu.mode = 0 THEN n - 1 ELSE n
                     /\ bus'.cgb_hdma_active = (left1 > 0)
          /\ (bus.cgb_hdma_active /\ ~Hdma5Write) =>
                /\ bus.ppu.lcd_enabled
                /\ Cardinality(VramChanged) = IF Mode0Entry THEN 16 ELSE 0
                /\ Mode0Entry => BlockCopied /\ bus'.ppu.ly # bus.cgb_hdma_last_hblank_ly
                /\ left1 = IF Mode0Entry THEN left - 1 ELSE left
                /\ bus'.cgb_hdma_active = (left1 > 0)
          /\ (last'.op = "read" /\ last'.addr = AddrHdma5 /\ bus.cgb_hdma_active) =>
                last'.ret = left - 1
          /\ (last'.op = "read" /\ last'.addr = AddrHdma5
                /\ ~bus.cgb_hdma_active /\ left = 0) =>
                last'.ret = 255]_vars

(* A two-block transfer started with the LCD on has finished on line 1:    *)
(* its second block was copied at that line's mode-0 entry and HDMA5 then  *)
(* read 0xFF.                                                              *)
C4_Witness ==
    /\ bus.ppu.lcd_enabled /\ bus.ppu.ly = 1 /\ bus.ppu.mode = 0
    /\ ~bus.cgb_hdma_active /\ bus.cgb_hdma_blocks_remaining = 0
    /\ bus.cgb_hdma_dst = 32768 + 32
    /\ \A i \in 0..31 : Get(bus.vram, i) = Get(bus.rom, i)
    /\ last.op = "read" /\ last.addr = AddrHdma5 /\ last.ret = 255

(* The transfer was aborted: not active with blocks still remaining.       *)
HdmaAborted(b) == ~b.cgb_hdma_active /\ b.cgb_hdma_blocks_remaining > 0

(* C5: a write of HDMA5 with bit 7 = 0 while an HBlank DMA is active       *)
(* copies nothing and stops the transfer; from then until HDMA5 is written *)
(* again no step copies a byte, whatever HBlank it crosses, and a read of  *)
(* HDMA5 returns a value with bit 7 set.                                   *)
C5_HdmaAbort ==
    [][/\ (Hdma5Write /\ last'.val < 128 /\ bus.cgb_hdma_active) =>
             /\ VramChanged = {}
             /\ HdmaAborted(bus')
             /\ bus'.cgb_hdma_blocks_remaining = bus.cgb_hdma_blocks_remaining
       /\ (HdmaAborted(bus) /\ ~Hdma5Write) =>
             /\ VramChanged = {}
             /\ HdmaAborted(bus')
       /\ (HdmaAborted(bus) /\ last'.op = "read" /\ last'.addr = AddrHdma5) =>
             last'.ret >= 128]_vars

(* After one block the transfer was aborted on line 0; on line 1, in mode  *)
(* 0, still only that block is in VRAM and HDMA5 has just read 0x80.       *)
C5_Witness ==
    /\ HdmaAborted(bus) /\ bus.cgb_hdma_blocks_remaining = 1
    /\ bus.ppu.ly = 1 /\ bus.ppu.mode = 0 /\ bus.ppu.dots >= 260
    /\ \A i \in 16..31 : Get(bus.vram, i) = 0
    /\ Get(bus.vram, 0) = Get(bus.rom, 0)
    /\ last.op = "read" /\ last.addr = AddrHdma5 /\ last.ret = 128

----------------------------------------------------------------------------
(* SpecCpu: Cpu::step on short programs.  Init is what a harness sets up   *)
(* before stepping: public CPU and bus fields preset, then bus writes that *)
(* leave the timer running or a serial transfer complete (the latter with  *)
(* the one-NOP program at 0, IE = 0x08 and IF = 0).  last records         *)
(* the step (its kind, the PC it began at, the opcode or interrupt index,  *)
(* the cycles returned, the CPU and the interrupt registers before it);    *)
(* hist keeps the two steps before it.                                     *)

MaxSteps == 4

Programs ==
    {<<OP_EI, OP_NOP, OP_NOP>>, <<OP_EI, OP_DI, OP_NOP>>, <<OP_EI, OP_INC_A, OP_NOP>>,
     <<OP_HALT, OP_NOP, OP_NOP>>, <<OP_HALT, OP_INC_A, OP_NOP>>,
     <<OP_HALT, OP_HALT, OP_NOP>>, <<OP_NOP>>}

StartPcs == {0, 336}

StartSps == {65534, 49408, 65296}

StartIes == {0, 8, 31}

StartIfs == {0, 1, 5, 28}

Envs == {"quiet", "timer", "serial"}

MakeRom(prog, base) ==
    [a \in {base + k - 1 : k \in {j \in 1..Len(prog) : prog[j] # 0}} |-> prog[a - base + 1]]

(* The bus after the harness's calls on the preset bus b: TMA = TIMA =     *)
(* 0xFF and TAC = 5 written (the timer overflows every 16 cycles), or SB = *)
(* 0x99 and SC = 0x81 written and 4096 cycles ticked (the serial transfer  *)
(* has completed and requested its interrupt).                             *)
Harness(b, env) ==
    IF env = "timer" THEN write8(write8(write8(b, 65286, 255), 65285, 255), 65287, 5)
    ELSE IF env = "serial"
    THEN bus_tick(write8(write8(b, 65281, 153), 65282, 129), SERIAL_INTERNAL_TRANSFER_CYCLES)
    ELSE b

NoStep ==
    [op |-> "none", addr |-> -1, val |-> -1, ret |-> -1, cost |-> 0,
     pre |-> CpuNew, pend |-> 0, iflag |-> 0]

InitCpu ==
    /\ \E pc \in StartPcs, sp \in StartSps, ime \in BOOLEAN, halted \in BOOLEAN :
          cpu = [CpuNew EXCEPT !.pc = pc, !.sp = sp, !.ime = ime, !.halted = halted]
    /\ \E prog \in Programs, ie \in StartIes, iflag \in StartIfs, env \in Envs :
          /\ env = "serial" =>
                prog = <<OP_NOP>> /\ cpu.pc = 0 /\ cpu.sp = 65534 /\ ie = 8 /\ iflag = 0
          /\ bus = Harness([BusNew("Dmg", MakeRom(prog, cpu.pc)) EXCEPT
                               !.ie = ie, !.iflag = iflag], env)
    /\ last = NoStep
    /\ hist = [steps |-> 0, prev |-> NoStep, prev2 |-> NoStep]

CpuStep ==
    LET stepped(s) ==
            /\ cpu' = s.m.cpu
            /\ bus' = s.m.bus
            /\ last' = [op |-> s.kind, addr |-> cpu.pc, val |-> s.opcode, ret |-> s.ret,
                        cost |-> s.ret, pre |-> cpu,
                        pend |-> pending_mask(bus.ie, bus.iflag), iflag |-> bus.iflag]
    IN /\ hist.steps < MaxSteps
       /\ stepped(step([cpu |-> cpu, bus |-> bus]))
       /\ hist' = [steps |-> hist.steps + 1, prev |-> last, prev2 |-> hist.prev]

NextCpu == CpuStep

SpecCpu == InitCpu /\ [][NextCpu]_vars

----------------------------------------------------------------------------
(* Interrupt dispatch.                                                     *)

Dispatched == last.op = "interrupt"

(* The lowest-numbered bit set in the IE & IF & 0x1F the step began with.  *)
LowestPending ==
    CHOOSE i \in 0..4 : Bit(last.pend, i) = 1 /\ \A k \in 0..(i - 1) : Bit(last.pend, k) = 0

(* IF as the step found it, with the serviced bit cleared.                 *)
IfServiced == ClearBits(last.iflag, 2 ^ LowestPending)

(* One of the two bytes pushed lands on IF (0xFF0F).                       *)
StackOnIf == 65295 \in {U16(last.pre.sp + 65535), U16(last.pre.sp + 65534)}

InRam(addr) == (addr >= 49152 /\ addr <= 57343) \/ (addr >= 65408 /\ addr <= 65534)

TimerEnabled == BitAnd(bus.timer.tac, 4) # 0

(* The statement of C6 as written: after a dispatch IF is IF before with   *)
(* exactly the serviced bit cleared.                                       *)
C6_Original ==
    Dispatched =>
        /\ bus.iflag = IfServiced
        /\ ~cpu.ime
        /\ cpu.sp = U16(last.pre.sp + 65534)
        /\ cpu.pc = 64 + 8 * LowestPending
        /\ last.ret = 20

(* C6: a step that begins with IME set and IE & IF & 0x1F # 0 dispatches   *)
(* the lowest-numbered pending bit i: PC becomes 0x0040 + 8*i, IME and     *)
(* halted are false, SP has decreased by 2 with the old PC stored high     *)
(* byte first, and the step returns 20.  Bit i of IF is cleared at the     *)
(* dispatch and the CPU changes no other bit, but the 20 cycles tick the   *)
(* peripherals: unless a pushed byte lands on IF, no other bit of IF is    *)
(* cleared, the only bit that can be raised is the timer's, and with the   *)
(* timer stopped IF is exactly IF before with bit i cleared.               *)
C6_InterruptDispatch ==
    /\ (last.op # "none" /\ last.pre.ime /\ last.pend # 0) => Dispatched
    /\ Dispatched =>
        /\ last.pre.ime /\ last.pend # 0
        /\ last.val = LowestPending
        /\ cpu.pc = 64 + 8 * LowestPending
        /\ ~cpu.ime /\ ~cpu.halted
        /\ cpu.sp = U16(last.pre.sp + 65534)
        /\ last.ret = 20
        /\ (InRam(cpu.sp) /\ InRam(U16(cpu.sp + 1))) =>
              /\ read8(bus, U16(cpu.sp + 1)).v = last.pre.pc \div 256
              /\ read8(bus, cpu.sp).v = last.pre.pc % 256
        /\ ~StackOnIf =>
              /\ BitAnd(bus.iflag, IfServiced) = IfServiced
              /\ ClearBits(bus.iflag, IfServiced) \in {0, 2 ^ IntTimer}
              /\ ~TimerEnabled => bus.iflag = IfServiced

(* VBlank and Timer both pending: VBlank is taken from PC 0x0150, Timer    *)
(* stays requested and the old PC is on the stack.                         *)
C6_Witness ==
    /\ Dispatched /\ last.pend = 5 /\ last.pre.pc = 336 /\ last.pre.sp = 65534
    /\ cpu.pc = 64 /\ cpu.sp = 65532 /\ ~TimerEnabled /\ bus.iflag = 4
    /\ read8(bus, 65533).v = 1 /\ read8(bus, 65532).v = 80

----------------------------------------------------------------------------
(* EI delay.                                                               *)

(* Step s executed EI with IME clear and no enable already pending.        *)
EiStep(s) == s.op = "exec" /\ s.val = OP_EI /\ ~s.pre.ime /\ ~s.pre.ei_pending

(* C7: IME is still false when EI completes; the step after EI executes    *)
(* an instruction even if an enabled interrupt is pending, and IME is true *)
(* when it completes unless it is DI, which leaves IME false and cancels   *)
(* the pending enable; after EI and a non-DI instruction a pending enabled *)
(* interrupt is dispatched by the third step, after EI and DI it is not.   *)
C7_EiDelay ==
    /\ EiStep(last) => ~cpu.ime /\ cpu.ei_pending
    /\ EiStep(hist.prev) =>
        /\ last.op = "exec"
        /\ ~last.pre.ime
        /\ IF last.val = OP_DI THEN ~cpu.ime /\ ~cpu.ei_pending ELSE cpu.ime
    /\ EiStep(hist.prev2) =>
        IF hist.prev.val = OP_DI
        THEN last.op = "exec" /\ ~last.pre.ime
        ELSE /\ last.pre.ime
             /\ last.pend # 0 => Dispatched /\ last.ret = 20
             /\ last.pend = 0 => last.op = "exec"

(* EI ; NOP with VBlank pending throughout: two instructions execute, then *)
(* the third step dispatches to 0x0040.                                    *)
C7_Witness ==
    /\ EiStep(hist.prev2) /\ hist.prev2.pend = 1
    /\ hist.prev.op = "exec" /\ hist.prev.val = OP_NOP /\ hist.prev.pend = 1
    /\ Dispatched /\ cpu.pc = 64 /\ last.pre.pc = hist.prev2.addr + 2

----------------------------------------------------------------------------
(* HALT with IME clear and an interrupt pending.                           *)

(* Step s executed HALT, beginning with IME clear and an enabled interrupt *)
(* pending.                                                                *)
HaltBugStep(s) == s.op = "exec" /\ s.val = OP_HALT /\ ~s.pre.ime /\ s.pend # 0

OneByteOps == {OP_NOP, OP_INC_A, OP_HALT, OP_DI, OP_EI}

(* The fetch of step s does not advance PC: the step began halted (waking  *)
(* sets the halt_bug latch) or with the latch set.                         *)
Latched(s) == s.pre.halted \/ s.pre.halt_bug

----------------------------------------------------------------------------
(* Waking from halt with IME clear.                                        *)

(* Step s began halted with IME clear and an enabled interrupt pending.    *)
WakeStep(s) == s.op # "none" /\ s.pre.halted /\ ~s.pre.ime /\ s.pend # 0

C10_SerialWakeAdvancesPc ==
    (WakeStep(last) /\ Len(bus.serial.output) > 0 /\ Bit(last.pend, IntSerial) = 1
        /\ last.val = OP_NOP) =>
        /\ last.ret = 4
        /\ ~cpu.halted
        /\ cpu.pc = U16(last.addr + 1)
        /\ Bit(bus.iflag, IntSerial) = 1

----------------------------------------------------------------------------
(* SpecTimer: the timer registers driven as tests/timer_dma.rs drives them,*)
(* with Bus::write8 and Bus::tick on a bus whose LCD is off.  hist.now     *)
(* counts the base cycles ticked since Init, hist.writes the writes to DIV *)
(* and TAC, hist.tima0 the TIMA of Init and hist.pre the cycles ticked     *)
(* before the registers were set.                                          *)

MaxTimerCycles == 32

TimerWriteBy == 8

MaxTimerWrites == 1

AddrDiv == 65284
AddrTima == 65285
AddrTma == 65286
AddrTac == 65287

(* Counter values at Init: all selectable bits low, bits 9 and 3 high,     *)
(* bits 9, 7, 5 and 3 high.                                                *)
TimerPreTicks == {0, 520, 1020}

(* <<TIMA, TMA>> at Init.                                                  *)
TimerPresets == {<<0, 0>>, <<255, 171>>, <<255, 0>>}

TimerTacs == {0, 4, 5, 6, 7}

TimerTickSizes == {1, 4}

InitTimer ==
    /\ cpu = CpuNew
    /\ \E pre \in TimerPreTicks, p \in TimerPresets, tac \in TimerTacs :
          /\ bus = write8(write8(write8(bus_tick(BusNew("Dmg", EmptyMem), pre),
                                        AddrTma, p[2]), AddrTima, p[1]), AddrTac, tac)
          /\ hist = [now |-> 0, writes |-> 0, tima0 |-> p[1], pre |-> pre]
    /\ last = NoOp

(* Bus::write8 on DIV or TAC.                                              *)
TimerWrite(addr, val) ==
    /\ hist.now <= TimerWriteBy
    /\ hist.writes < MaxTimerWrites
    /\ bus' = write8(bus, addr, val)
    /\ last' = [op |-> "write", addr |-> addr, val |-> val, ret |-> -1, cost |-> 0,
                pre |-> bus.timer, iflag |-> bus.iflag]
    /\ hist' = [hist EXCEPT !.writes = hist.writes + 1]
    /\ UNCHANGED cpu

(* Bus::tick.                                                              *)
TimerTick(cycles) ==
    /\ hist.now + cycles <= MaxTimerCycles
    /\ bus' = bus_tick(bus, cycles)
    /\ last' = [op |-> "tick", addr |-> -1, val |-> -1, ret |-> -1, cost |-> cycles,
                pre |-> bus.timer, iflag |-> bus.iflag]
    /\ hist' = [hist EXCEPT !.now = hist.now + cycles]
    /\ UNCHANGED cpu

(* The period of the selected rate, ticked in one call before any write.   *)
TimerPeriod(tac) ==
    CASE tac % 4 = 0 -> 1024 [] tac % 4 = 1 -> 16 [] tac % 4 = 2 -> 64 [] tac % 4 = 3 -> 256

TimerTickPeriod ==
    /\ hist.now = 0
    /\ hist.writes = 0
    /\ bus' = bus_tick(bus, TimerPeriod(bus.timer.tac))
    /\ last' = [op |-> "tick", addr |-> -1, val |-> -1, ret |-> -1,
                cost |-> TimerPeriod(bus.timer.tac), pre |-> bus.timer, iflag |-> bus.iflag]
    /\ hist' = [hist EXCEPT !.now = hist.now + TimerPeriod(bus.timer.tac)]
    /\ UNCHANGED cpu

NextTimer ==
    \/ TimerWrite(AddrDiv, 0)
    \/ \E val \in TimerTacs : TimerWrite(AddrTac, val)
    \/ \E cycles \in TimerTickSizes : TimerTick(cycles)
    \/ TimerTickPeriod

SpecTimer == InitTimer /\ [][NextTimer]_vars

(* The timer input signal of a timer record: the TAC-selected counter bit  *)
(* and the TAC enable bit.                                                 *)
TimerSignal(t) ==
    /\ (t.tac \div 4) % 2 = 1
    /\ (t.counter \div (CASE t.tac % 4 = 0 -> 512 [] t.tac % 4 = 1 -> 8
                          [] t.tac % 4 = 2 -> 32 [] t.tac % 4 = 3 -> 128)) % 2 = 1

(* TIMA after one increment of the timer t.                                *)
TimaPlusOne(t) == IF t.tima = 255 THEN t.tma ELSE t.tima + 1

TimerWriteStep == last'.op = "write" /\ last'.addr \in {AddrDiv, AddrTac}

FallingEdgeAtWrite == TimerSignal(bus.timer) /\ ~TimerSignal(bus'.timer)

(* C11: a write to DIV or TAC that takes the timer input signal from 1 to  *)
(* 0 increments TIMA once in the write itself, and a write without such a  *)
(* falling edge leaves TIMA as it was.                                     *)
C11_WriteFallingEdge ==
    [][TimerWriteStep =>
          bus'.timer.tima = IF FallingEdgeAtWrite THEN TimaPlusOne(bus.timer)
                            ELSE bus.timer.tima]_vars


C11_Witness ==
    /\ last.op = "write"
    /\ last.addr = AddrDiv
    /\ TimerSignal(last.pre)
    /\ ~TimerSignal(bus.timer)
    /\ bus.timer.tima = last.pre.tima + 1

TimerTickStep == last'.op = "tick"

(* The falling edges of the selected counter bit within the cycles ticked  *)
(* from the timer t: the multiples of the period the counter passes.       *)
EdgesIn(t, cycles) ==
    IF (t.tac \div 4) % 2 = 1
    THEN ((t.counter + cycles) \div TimerPeriod(t.tac)) - (t.counter \div TimerPeriod(t.tac))
    ELSE 0

(* C12: ticking increments TIMA once per falling edge of the TAC-selected  *)
(* counter bit while TAC bit 2 is set, that is every 1024, 16, 64 or 256   *)
(* base cycles, and never while it is clear; from a zero counter and a zero*)
(* TIMA with TAC = 0x05, TIMA is 1 after 16 base cycles and 2 after 32.    *)
C12_TickFallingEdges ==
    /\ [][TimerTickStep =>
             /\ EdgesIn(bus.timer, last'.cost) \in {0, 1}
             /\ bus'.timer.tima = IF EdgesIn(bus.timer, last'.cost) = 1
                                  THEN TimaPlusOne(bus.timer) ELSE bus.timer.tima]_vars
    /\ [](hist.pre = 0 /\ hist.writes = 0 /\ hist.tima0 = 0 /\ last.op = "tick" =>
             bus.timer.tima = IF (bus.timer.tac \div 4) % 2 = 1
                              THEN hist.now \div TimerPeriod(bus.timer.tac) ELSE 0)

C12_Witness ==
    /\ hist.pre = 0 /\ hist.writes = 0 /\ hist.tima0 = 0
    /\ bus.timer.tac = 5
    /\ hist.now = 32
    /\ last.op = "tick" /\ last.cost = 1
    /\ bus.timer.tima = 2

(* The last action incremented TIMA: a tick over a falling edge or a write *)
(* that made one.                                                          *)
TimaIncremented ==
    \/ last.op = "tick" /\ EdgesIn(last.pre, last.cost) = 1
    \/ last.op = "write" /\ TimerSignal(last.pre) /\ ~TimerSignal(bus.timer)

(* C13: an increment of TIMA from 0xFF leaves, in the same base cycle, TIMA*)
(* equal to TMA and bit 2 of IF set; TIMA is 0 after it only when TMA is 0,*)
(* and bit 2 of IF is raised by no later action than the overflowing one.  *)
C13_OverflowReload ==
    last.op \in {"tick", "write"} =>
       /\ TimaIncremented /\ last.pre.tima = 255 =>
              /\ bus.timer.tima = bus.timer.tma
              /\ Bit(bus.iflag, 2) = 1
       /\ Bit(bus.iflag, 2) = 1 /\ Bit(last.iflag, 2) = 0 =>
              TimaIncremented /\ last.pre.tima = 255

C13_Witness ==
    /\ last.op = "tick" /\ last.cost = 1
    /\ last.pre.tima = 255
    /\ EdgesIn(last.pre, 1) = 1
    /\ bus.timer.tima = 171
    /\ Bit(bus.iflag, 2) = 1 /\ Bit(last.iflag, 2) = 0

----------------------------------------------------------------------------
(* SpecSerial: the serial port driven as tests/serial_interrupts.rs drives *)
(* it, with Bus::write8 on SB and SC and Bus::tick.  hist.sc_t counts the  *)
(* base cycles ticked since the last write to SC with bits 7 and 0 set (-1 *)
(* when the last write to SC was another value, or there was none);        *)
(* hist.sb0, hist.out0 and hist.if0 are SB, the captured output and IF at  *)
(* that write.                                                             *)

MaxSerialTicks == 5

MaxSerialWrites == 3

AddrSb == 65281
AddrSc == 65282

SerialSbValues == {85, 153}

SerialScValues == {129, 1}

SerialTickSizes == {1, 2047}

InitSerial ==
    /\ cpu = CpuNew
    /\ bus = BusNew("Dmg", EmptyMem)
    /\ last = NoOp
    /\ hist = [ticks |-> 0, writes |-> 0, sc_t |-> -1, sb0 |-> 0, out0 |-> <<>>, if0 |-> 0]

SerialWriteSb(val) ==
    /\ hist.writes < MaxSerialWrites
    /\ bus' = write8(bus, AddrSb, val)
    /\ last' = [op |-> "write", addr |-> AddrSb, val |-> val, ret |-> -1, cost |-> 0]
    /\ hist' = [hist EXCEPT !.writes = hist.writes + 1]
    /\ UNCHANGED cpu

SerialWriteSc(val) ==
    /\ hist.writes < MaxSerialWrites
    /\ bus' = write8(bus, AddrSc, val)
    /\ last' = [op |-> "write", addr |-> AddrSc, val |-> val, ret |-> -1, cost |-> 0]
    /\ hist' = [hist EXCEPT
                  !.writes = hist.writes + 1,
                  !.sc_t = IF val = 129 THEN 0 ELSE -1,
                  !.sb0 = Get(bus.io, IO_SB),
                  !.out0 = bus.serial.output,
                  !.if0 = bus.iflag]
    /\ UNCHANGED cpu

SerialTick(cycles) ==
    /\ hist.ticks < MaxSerialTicks
    /\ bus' = bus_tick(bus, cycles)
    /\ last' = [op |-> "tick", addr |-> -1, val |-> -1, ret |-> -1, cost |-> cycles]
    /\ hist' = [hist EXCEPT !.ticks = hist.ticks + 1,
                            !.sc_t = IF hist.sc_t < 0 THEN -1 ELSE hist.sc_t + cycles]
    /\ UNCHANGED cpu

NextSerial ==
    \/ \E val \in SerialSbValues : SerialWriteSb(val)
    \/ \E val \in SerialScValues : SerialWriteSc(val)
    \/ \E cycles \in SerialTickSizes : SerialTick(cycles)

SpecSerial == InitSerial /\ [][NextSerial]_vars

ScBusy == read8(bus, AddrSc).v >= 128

----------------------------------------------------------------------------
(* SpecSelfTest: gb-cli's self-test, run_for_serial_result on the ROM of   *)
(* make_self_test_rom.  hist.steps counts the calls of GameBoy::step and   *)
(* hist.cycles sums what they returned.                                    *)

MaxSelfTestSteps == 400

PassedText == <<80, 97, 115, 115, 101, 100, 10>>

SelfTestStart == 336

SelfTestEntry == 256

(* The ten bytes make_self_test_rom emits for one byte b of the text:      *)
(* LD A,b; LD (0xFF01),A; LD A,0x81; LD (0xFF02),A.                        *)
SelfTestEmit(b) == <<OP_LD_A_D8, b, OP_LD_A16_A, 1, 255, OP_LD_A_D8, 129, OP_LD_A16_A, 2, 255>>

RECURSIVE SelfTestCode(_)
SelfTestCode(k) ==
    IF k > Len(PassedText) THEN <<OP_JR, 254>>
    ELSE SelfTestEmit(PassedText[k]) \o SelfTestCode(k + 1)

SelfTestLoop == SelfTestStart + 10 * Len(PassedText)

make_self_test_rom ==
    LET jp == MakeRom(<<OP_JP_A16, SelfTestStart % 256, SelfTestStart \div 256>>, SelfTestEntry)
        code == MakeRom(SelfTestCode(1), SelfTestStart)
    IN [a \in DOMAIN jp \cup DOMAIN code |-> IF a \in DOMAIN jp THEN jp[a] ELSE code[a]]

(* init_dmg_post_boot: the registers, then the IO writes through the bus   *)
(* (those to the APU, which this model leaves out, are not made).          *)
PostBootWrites ==
    <<<<65280, 207>>, <<65285, 0>>, <<65286, 0>>, <<65287, 0>>, <<65344, 145>>,
      <<65346, 0>>, <<65347, 0>>, <<65349, 0>>, <<65351, 252>>, <<65352, 255>>,
      <<65353, 255>>, <<65354, 0>>, <<65355, 0>>>>

RECURSIVE init_dmg_post_boot(_, _)
init_dmg_post_boot(b, k) ==
    IF k > Len(PostBootWrites) THEN b
    ELSE init_dmg_post_boot(write8(b, PostBootWrites[k][1], PostBootWrites[k][2]), k + 1)

InitSelfTest ==
    /\ cpu = [CpuNew EXCEPT !.a = 1, !.f = 176, !.sp = 65534, !.pc = SelfTestEntry]
    /\ bus = init_dmg_post_boot([BusNew("Dmg", make_self_test_rom) EXCEPT !.ie = 0, !.iflag = 0], 1)
    /\ last = NoStep
    /\ hist = [steps |-> 0, cycles |-> 0]

(* One turn of the loop of run_for_serial_result: GameBoy::step.  The      *)
(* captured output the loop takes from the port each turn and appends to   *)
(* its own buffer is kept here in bus.serial.output.                       *)
SelfTestStep ==
    LET stepped(s) ==
            /\ cpu' = s.m.cpu
            /\ bus' = s.m.bus
            /\ last' = [op |-> s.kind, addr |-> cpu.pc, val |-> s.opcode, ret |-> s.ret,
                        cost |-> s.ret, pre |-> cpu,
                        pend |-> pending_mask(bus.ie, bus.iflag), iflag |-> bus.iflag]
            /\ hist' = [steps |-> hist.steps + 1, cycles |-> hist.cycles + s.ret]
    IN /\ hist.steps < MaxSelfTestSteps
       /\ stepped(step([cpu |-> cpu, bus |-> bus]))

NextSelfTest == SelfTestStep

SpecSelfTest == InitSelfTest /\ [][NextSelfTest]_vars

(* C15: once the self-test program has reached its final loop and the      *)
(* serial port has finished its last transfer, the captured output is      *)
(* "Passed\n": every byte written to SB and followed by a write of 0x81 to *)
(* SC has been captured once, in program order.                            *)
C15_SelfTestPrintsPassed ==
    cpu.pc = SelfTestLoop /\ ~bus.serial.in_progress => bus.serial.output = PassedText

----------------------------------------------------------------------------
(* SpecLcd: the PPU driven through the bus as the tests of ppu/ppu.rs and  *)
(* tests/ppu_access_windows.rs drive it: STAT and LYC are set, the bus is  *)
(* ticked with the LCD off, LCDC bit 7 is written and two frames are       *)
(* ticked, lines 0, 143 and 153 four cycles at a time and the others a     *)
(* line at a time; IF is cleared, LY written and frame_ready taken on the  *)
(* way.  hist.now counts the base cycles ticked since Init, hist.on_t      *)
(* those since the write that set LCDC bit 7 (-1 before it), hist.vb_t     *)
(* those since LY last advanced from 143 to 144 (-1 before that, and after *)
(* a write to LY), hist.vb_gap the cycles between the last two such        *)
(* advances (-1 if fewer), hist.ly_writes the writes to LY; last.pre,      *)
(* last.iflag and last.stat are the PPU, IF and STAT before the last       *)
(* action.                                                                 *)

MaxLcdCycles == 140448

LcdOffCycles == 8

MaxLyWrites == 1

AddrIf == 65295
AddrStat == 65345
AddrLy == 65348
AddrLyc == 65349

(* <<STAT, LYC>> at Init.                                                  *)
LcdPresets == {<<0, 0>>, <<64, 0>>, <<64, 144>>}

LcdFineLines == {0, 143, 153}

LyWriteDots == {100}

LcdcOn(b) == Get(b.io, IO_LCDC) >= 128

NoLcdOp ==
    [op |-> "none", addr |-> -1, val |-> -1, ret |-> -1, cost |-> 0,
     pre |-> PpuNew, iflag |-> 0, stat |-> 0]

InitLcd ==
    /\ cpu = CpuNew
    /\ \E p \in LcdPresets :
          bus = write8(write8(BusNew("Dmg", EmptyMem), AddrStat, p[1]), AddrLyc, p[2])
    /\ last = NoLcdOp
    /\ hist = [now |-> 0, on_t |-> -1, vb_t |-> -1, vb_gap |-> -1, ly_writes |-> 0]

(* Bus::write8 on an IO register.                                          *)
LcdWrite(addr, val) ==
    /\ bus' = write8(bus, addr, val)
    /\ last' = [op |-> "write", addr |-> addr, val |-> val, ret |-> -1, cost |-> 0,
                pre |-> bus.ppu, iflag |-> bus.iflag, stat |-> Get(bus.io, IO_STAT)]
    /\ hist' = IF addr = AddrLcdc THEN [hist EXCEPT !.on_t = 0]
               ELSE IF addr = AddrLy
               THEN [hist EXCEPT !.vb_t = -1, !.vb_gap = -1, !.ly_writes = hist.ly_writes + 1]
               ELSE hist
    /\ UNCHANGED cpu

(* Bus::tick.                                                              *)
LcdTick(cycles) ==
    /\ hist.now + cycles <= MaxLcdCycles
    /\ bus' = bus_tick(bus, cycles)
    /\ last' = [op |-> "tick", addr |-> -1, val |-> -1, ret |-> -1, cost |-> cycles,
                pre |-> bus.ppu, iflag |-> bus.iflag, stat |-> Get(bus.io, IO_STAT)]
    /\ hist' = LET entered == bus.ppu.ly = 143 /\ bus'.ppu.ly = 144
               IN [hist EXCEPT
                     !.now = hist.now + cycles,
                     !.on_t = IF hist.on_t < 0 THEN -1 ELSE hist.on_t + cycles,
                     !.vb_t = IF entered THEN bus'.ppu.dots
                              ELSE IF hist.vb_t < 0 THEN -1 ELSE hist.vb_t + cycles,
                     !.vb_gap = IF entered /\ hist.vb_t >= 0
                                THEN hist.vb_t + cycles - bus'.ppu.dots
                                ELSE hist.vb_gap]
    /\ UNCHANGED cpu

(* Ppu::clear_frame_ready, called by the frontend that saw frame_ready.    *)
LcdClearFrame ==
    /\ bus.ppu.frame_ready
    /\ bus' = [bus EXCEPT !.ppu.frame_ready = FALSE]
    /\ last' = [op |-> "clear", addr |-> -1, val |-> -1, ret |-> -1, cost |-> 0,
                pre |-> bus.ppu, iflag |-> bus.iflag, stat |-> Get(bus.io, IO_STAT)]
    /\ UNCHANGED <<cpu, hist>>

NextLcd ==
    \/ ~LcdcOn(bus) /\ hist.now < LcdOffCycles /\ LcdTick(4)
    \/ ~LcdcOn(bus) /\ hist.now = 0 /\ LcdWrite(AddrLcdc, 128)
    \/ LcdcOn(bus) /\ bus.ppu.ly \in LcdFineLines /\ LcdTick(4)
    \/ LcdcOn(bus) /\ bus.ppu.ly \notin LcdFineLines /\ LcdTick(DotsPerLine)
    \/ bus.iflag # 0 /\ LcdWrite(AddrIf, 0)
    \/ /\ bus.ppu.lcd_enabled /\ bus.ppu.ly = 0 /\ bus.ppu.dots \in LyWriteDots
       /\ hist.ly_writes < MaxLyWrites
       /\ LcdWrite(AddrLy, 0)
    \/ LcdClearFrame

SpecLcd == InitLcd /\ [][NextLcd]_vars

ModeAt(ly, dots) ==
    IF ly >= 144 THEN 1
    ELSE IF dots < 80 THEN 2
    ELSE IF dots < 252 THEN 3
    ELSE 0

LcdPosition ==
    bus.ppu.lcd_enabled =>
       /\ bus.ppu.ly \in 0..153
       /\ bus.ppu.dots \in 0..455
       /\ bus.ppu.mode = ModeAt(bus.ppu.ly, bus.ppu.dots)

(* A change of mode the PPU makes as its dots advance.                     *)
ModeAdvance ==
    LET p == bus.ppu
        q == bus'.ppu
    IN \/ p.mode = 2 /\ q.mode = 3 /\ p.ly < 144 /\ q.ly = p.ly
       \/ p.mode = 3 /\ q.mode = 0 /\ p.ly < 144 /\ q.ly = p.ly
       \/ p.mode = 0 /\ q.mode = 2 /\ p.ly < 143 /\ q.ly = p.ly + 1
       \/ p.mode = 0 /\ q.mode = 1 /\ p.ly = 143 /\ q.ly = 144
       \/ p.mode = 1 /\ q.mode = 2 /\ p.ly = 153 /\ q.ly = 0

ModeChanged ==
    bus.ppu.lcd_enabled /\ bus'.ppu.lcd_enabled /\ bus'.ppu.mode # bus.ppu.mode

(* C17 as stated: with the LCD on, LY is in 0..153, the dot counter in     *)
(* 0..455 and the mode is the one of that line and dot; the mode changes   *)
(* only 2 -> 3 -> 0 within a visible line, 0 -> 2 or 0 -> 1 at the end of  *)
(* a line and 1 -> 2 at the wrap of the frame.                             *)
C17_Original ==
    /\ []LcdPosition
    /\ [][ModeChanged => ModeAdvance]_vars

(* C17, amended: as stated, except that a write to LY takes the PPU from   *)
(* any mode to mode 2 at dot 0 of line 0.                                  *)
C17_ModeMachine ==
    /\ []LcdPosition
    /\ [][ModeChanged =>
             \/ ModeAdvance
             \/ /\ last'.op = "write" /\ last'.addr = AddrLy
                /\ bus'.ppu.mode = 2 /\ bus'.ppu.ly = 0 /\ bus'.ppu.dots = 0]_vars

C17_Witness ==
    /\ last.op = "write" /\ last.addr = AddrLy
    /\ last.pre.lcd_enabled /\ last.pre.mode = 3 /\ last.pre.dots = 100
    /\ bus.ppu.lcd_enabled /\ bus.ppu.mode = 2 /\ bus.ppu.dots = 0 /\ bus.ppu.ly = 0

(* The mode bits and the coincidence flag of STAT, and LY, as a program    *)
(* reads them.                                                             *)
StatMode(b) == read8_direct(b, AddrStat) % 4

StatCoincidence(b) == (read8_direct(b, AddrStat) \div 4) % 2 = 1

LyRead(b) == read8_direct(b, AddrLy)

(* C18: with bit 6 of STAT set (and no mode source enabled), bit 1 of IF   *)
(* is raised only by a step that takes LY == LYC from false to true; while *)
(* the equality continues to hold no further request is made.              *)
C18_LycEdgeOnly ==
    [][(/\ Get(bus.io, IO_STAT) \div 8 = 8
        /\ Bit(bus.iflag, 1) = 0
        /\ Bit(bus'.iflag, 1) = 1) =>
          /\ ~StatCoincidence(bus)
          /\ LyRead(bus') = read8_direct(bus', AddrLyc)]_vars

(* C19: while bit 7 of LCDC is clear, a tick of any length leaves LY at 0  *)
(* and the mode bits of STAT at 0 and requests no interrupt, whatever STAT *)
(* and LYC hold.                                                           *)
C19_LcdOffQuiet ==
    [][(last'.op = "tick" /\ ~LcdcOn(bus)) =>
          /\ LyRead(bus') = 0
          /\ StatMode(bus') = 0
          /\ bus'.iflag = bus.iflag]_vars

(* C20: after the write that switches the LCD on the PPU runs from dot 0   *)
(* of line 0 in mode 2: the mode is 2 until 80 base cycles have been       *)
(* ticked (so still after 76) and 3 at 80, and LY is 0 until 456 have been *)
(* ticked and 1 at 456.                                                    *)
C20_EnableTiming ==
    (last.op = "tick" /\ hist.on_t >= 0 /\ hist.on_t <= 456 /\ hist.ly_writes = 0) =>
       /\ hist.on_t < 80 => StatMode(bus) = 2
       /\ hist.on_t = 80 => StatMode(bus) = 3
       /\ LyRead(bus) = IF hist.on_t < 456 THEN 0 ELSE 1

----------------------------------------------------------------------------
(* SpecApu: a program that writes the sound registers and lets time pass.  *)
(* Each behaviour works on one channel, whose DAC is switched on at Init,   *)
(* after a byte of wave RAM and the master volume have been written.       *)

MaxApuTicks == 3

MaxApuWrites == 3

(* <<mode, double speed>> at Init.                                         *)
ApuPresets == {<<"Dmg", FALSE>>, <<"Cgb", FALSE>>, <<"Cgb", TRUE>>}

ApuChannels == {1, 3, 4}

(* Register r of channel ch: NR10 + 5 * (ch - 1) + r.                      *)
NRx(ch, r) == NR10 + (5 * (ch - 1)) + r

(* Length loads: 1 and 2 on every channel.                                 *)
ApuLengthLoads == {255, 254}

ApuNrx4Values == {0, 64, 128, 192}

ApuPowerValues == {0, 128}

ApuWaveByte == 123

ApuVolume == 119

ApuTickSize == 8192

NoApuOp ==
    [op |-> "none", addr |-> -1, val |-> -1, cost |-> 0,
     pre |-> ApuNew(FALSE), counter |-> 0, sent |-> -1]

(* The bus after the KEY1 write and the STOP that switches the speed.      *)
ApuSpeed(b, double) ==
    IF double THEN try_cgb_speed_switch(write8(b, AddrKey1, 1)).b ELSE b

(* The writes made before the first action.                                *)
ApuPreset(b, ch) ==
    write8(write8(write8(b, WAVE_RAM_START + 3, ApuWaveByte), NR50, ApuVolume),
           IF ch = 3 THEN NR30 ELSE NRx(ch, 2), IF ch = 3 THEN 128 ELSE 240)

InitApu ==
    /\ cpu = CpuNew
    /\ \E p \in ApuPresets, ch \in ApuChannels :
          /\ bus = ApuPreset(ApuSpeed(BusNew(p[1], EmptyMem), p[2]), ch)
          /\ hist = [now |-> 0, writes |-> 0, ticks |-> 0, ch |-> ch]
    /\ last = NoApuOp

(* Cpu::write8 on a sound register: the bus write, then one M-cycle.  sent *)
(* is the div_counter argument that Bus::write8_direct hands to the APU.   *)
ApuWrite(addr, val) ==
    /\ hist.writes < MaxApuWrites
    /\ bus' = bus_tick(write8(bus, addr, val), 4)
    /\ last' = [op |-> "write", addr |-> addr, val |-> val, cost |-> 4,
                pre |-> bus.apu, counter |-> bus.timer.counter,
                sent |-> raw_counter(bus)]
    /\ hist' = [hist EXCEPT !.writes = @ + 1, !.now = @ + 4]
    /\ UNCHANGED cpu

(* Cpu::tick_idle.                                                         *)
ApuIdle(cycles) ==
    /\ hist.ticks < MaxApuTicks
    /\ bus' = bus_tick(bus, cycles)
    /\ last' = [op |-> "idle", addr |-> -1, val |-> -1, cost |-> cycles,
                pre |-> bus.apu, counter |-> bus.timer.counter, sent |-> -1]
    /\ hist' = [hist EXCEPT !.ticks = @ + 1, !.now = @ + cycles]
    /\ UNCHANGED cpu

NextApu ==
    \/ \E val \in ApuLengthLoads : ApuWrite(NRx(hist.ch, 1), val)
    \/ \E val \in ApuNrx4Values : ApuWrite(NRx(hist.ch, 4), val)
    \/ \E val \in ApuPowerValues : ApuWrite(NR52, val)
    \/ ApuIdle(ApuTickSize)

SpecApu == InitApu /\ [][NextApu]_vars

(* The channel a run works on, in an APU record.                           *)
ApuChannel(a, ch) ==
    CASE ch = 1 -> a.ch1 [] ch = 2 -> a.ch2 [] ch = 3 -> a.ch3 [] OTHER -> a.ch4

(* The last action was a CPU write to NRx4 of the run's channel with the   *)
(* APU powered.                                                            *)
Nrx4Step == last.op = "write" /\ last.addr = NRx(hist.ch, 4) /\ last.pre.powered

(* That write enabled length (bit 6 from 0 to 1) at an odd step.           *)
Nrx4Extra ==
    /\ last.pre.frame_seq_step % 2 = 1
    /\ ~TestBit(ApuChannel(last.pre, hist.ch).nrx4, 6)
    /\ TestBit(last.val, 6)

(* The length counter after one clock (if extra) followed by the trigger   *)
(* (if trig) on a counter that held len.                                   *)
ClockThenTrigger(len, extra, trig, full) ==
    LET clocked == IF extra /\ len > 0 THEN len - 1 ELSE len
    IN IF trig /\ clocked = 0 THEN full ELSE clocked

(* The CGB-only second clock: an odd-step write that triggers with length  *)
(* enabled, on a counter frozen at 0 by an earlier extra clock or by the   *)
(* extra clock of this write.                                              *)
Nrx4SecondClock ==
    /\ last.pre.cgb_mode
    /\ last.pre.frame_seq_step % 2 = 1
    /\ TestBit(last.val, 7) /\ TestBit(last.val, 6)
    /\ \/ ApuChannel(last.pre, hist.ch).length_frozen
       \/ Nrx4Extra /\ ApuChannel(last.pre, hist.ch).length_counter = 1

(* What both forms of C21 say of the enabled flag: a write that does not   *)
(* trigger disables a channel of length 1 when it gives the extra clock,   *)
(* and leaves the channel alone when it gives none.                        *)
Nrx4Enabled ==
    LET old == ApuChannel(last.pre, hist.ch)
        new == ApuChannel(bus.apu, hist.ch)
    IN ~TestBit(last.val, 7) =>
          /\ Nrx4Extra /\ old.length_counter = 1 => ~new.enabled
          /\ ~Nrx4Extra => new.enabled = old.enabled
                           /\ new.length_counter = old.length_counter

(* C21 as stated: a write to NRx4 that turns length-enable on at an odd    *)
(* frame-sequencer step clocks the length counter exactly once, before the *)
(* trigger of the same write; any other write to NRx4 clocks it not at     *)
(* all.                                                                    *)
C21_Original ==
    Nrx4Step =>
        /\ ApuChannel(bus.apu, hist.ch).length_counter =
              ClockThenTrigger(ApuChannel(last.pre, hist.ch).length_counter, Nrx4Extra,
                               TestBit(last.val, 7), FullLength(ApuChannel(bus.apu, hist.ch)))
        /\ Nrx4Enabled

(* C21, amended: a write to NRx4 that turns length-enable on at an odd     *)
(* frame-sequencer step clocks the length counter once, before the trigger *)
(* of the same write, so that a channel of length 1 is disabled at once;   *)
(* no such clock is given at an even step or when length was enabled       *)
(* already.  On CGB an odd-step write that triggers with length enabled    *)
(* clocks the counter once more, after the trigger, when the counter was   *)
(* frozen at 0 by this or an earlier extra clock.                          *)
C21_LengthExtraClock ==
    Nrx4Step =>
        /\ ApuChannel(bus.apu, hist.ch).length_counter =
              ClockThenTrigger(ApuChannel(last.pre, hist.ch).length_counter, Nrx4Extra,
                               TestBit(last.val, 7), FullLength(ApuChannel(bus.apu, hist.ch)))
              - (IF Nrx4SecondClock THEN 1 ELSE 0)
        /\ Nrx4Enabled

(* An odd-step write that enables length without triggering has just       *)
(* switched off a sounding channel of length 1.                            *)
C21_Witness ==
    /\ Nrx4Step
    /\ Nrx4Extra
    /\ ~TestBit(last.val, 7)
    /\ ApuChannel(last.pre, hist.ch).enabled
    /\ ApuChannel(last.pre, hist.ch).length_counter = 1
    /\ ~ApuChannel(bus.apu, hist.ch).enabled

----------------------------------------------------------------------------
(* The speed of the peripherals: a CGB or DMG machine with an MBC3 RTC     *)
(* cartridge, in normal or double speed, driven by CPU accesses and idle   *)
(* cycles (tests/cgb_double_speed_timing.rs).                              *)

MaxSpeedOps == 4

SpeedPresets == {<<"Dmg", FALSE>>, <<"Cgb", FALSE>>, <<"Cgb", TRUE>>}

(* Cartridge::from_rom for type 0x10 (MBC3+TIMER+RAM+BATTERY), 8 KiB RAM.  *)
Mbc3Cart == CartNew(TRUE, 8192, Mbc3New)

(* The accesses that set peripherals going: OAM DMA from 0xC000, a serial  *)
(* transfer on the internal clock, the LCD, the timer at 262144 Hz.        *)
SpeedWrites == {<<65350, 192>>, <<65282, 129>>, <<65344, 128>>, <<65287, 5>>}

SpeedIdles == {4, 8, 12, 16}

NoSpeedOp == [op |-> "none", cost |-> 0, pre |-> BusNew("Dmg", EmptyMem)]

InitSpeed ==
    /\ cpu = CpuNew
    /\ \E p \in SpeedPresets :
          /\ bus = ApuSpeed([BusNew(p[1], EmptyMem) EXCEPT !.cart = Mbc3Cart], p[2])
          /\ hist = [ops |-> 0, double |-> (p[1] = "Cgb" /\ p[2])]
    /\ last = NoSpeedOp

(* Cpu::write8: the bus write, then one M-cycle; pre is the bus between.   *)
SpeedWrite(addr, val) ==
    /\ hist.ops < MaxSpeedOps
    /\ bus' = bus_tick(write8(bus, addr, val), 4)
    /\ last' = [op |-> "write", cost |-> 4, pre |-> write8(bus, addr, val)]
    /\ hist' = [hist EXCEPT !.ops = @ + 1]
    /\ UNCHANGED cpu

(* Cpu::tick_mcycle and Cpu::tick_idle.                                    *)
SpeedIdle(cycles) ==
    /\ hist.ops < MaxSpeedOps
    /\ bus' = bus_tick(bus, cycles)
    /\ last' = [op |-> "idle", cost |-> cycles, pre |-> bus]
    /\ hist' = [hist EXCEPT !.ops = @ + 1]
    /\ UNCHANGED cpu

NextSpeed ==
    \/ \E w \in SpeedWrites : SpeedWrite(w[1], w[2])
    \/ \E n \in SpeedIdles : SpeedIdle(n)

SpecSpeed == InitSpeed /\ [][NextSpeed]_vars

(* The base cycles the claim gives to a tick of n CPU cycles.              *)
SpeedBase == IF hist.double THEN last.cost \div 2 ELSE last.cost

(* Positions of the peripherals, in base cycles.                           *)
FramePos(a) == (a.frame_seq_step * FRAME_SEQUENCER_PERIOD_CYCLES) + a.frame_seq_counter

DotPos(p) == (p.ly * DotsPerLine) + p.dots

DmaPos(d) == (OAM_DMA_CYCLES_PER_BYTE - d.startup_delay)
             + (OAM_DMA_CYCLES_PER_BYTE * d.next_byte) + d.cycle_budget

(* C22: in CGB double speed a tick of n CPU cycles (one M-cycle: n = 4)    *)
(* advances the timer counter, the frame sequencer, the PPU, a running     *)
(* OAM DMA, a running serial transfer and the cartridge clock by n / 2     *)
(* base cycles (2 per M-cycle), and by n in normal speed.                  *)
C22_DoubleSpeedHalves ==
    last.op # "none" =>
      /\ bus.timer.counter = U16(last.pre.timer.counter + SpeedBase)
      /\ FramePos(bus.apu) = (FramePos(last.pre.apu) + SpeedBase) % (8 * FRAME_SEQUENCER_PERIOD_CYCLES)
      /\ last.pre.ppu.lcd_enabled =>
            DotPos(bus.ppu) = (DotPos(last.pre.ppu) + SpeedBase) % (154 * DotsPerLine)
      /\ (last.pre.oam_dma.active /\ bus.oam_dma.active) =>
            DmaPos(bus.oam_dma) = DmaPos(last.pre.oam_dma) + SpeedBase
      /\ (last.pre.serial.in_progress /\ bus.serial.in_progress) =>
            bus.serial.cycles_remaining = last.pre.serial.cycles_remaining - SpeedBase
      /\ bus.cart.mbc.rtc_cycle_accum = last.pre.cart.mbc.rtc_cycle_accum + SpeedBase

(* A double-speed M-cycle with the LCD on, a DMA and a transfer running.   *)
C22_Witness ==
    /\ hist.double /\ last.cost = 4
    /\ bus.timer.counter = last.pre.timer.counter + 2
    /\ last.pre.ppu.lcd_enabled
    /\ last.pre.oam_dma.active /\ bus.oam_dma.active
    /\ last.pre.serial.in_progress /\ bus.serial.in_progress
    /\ bus.cart.mbc.rtc_cycle_accum = last.pre.cart.mbc.rtc_cycle_accum + 2

----------------------------------------------------------------------------
(* SpecOps: one or two calls of Cpu::step on a program that starts with    *)
(* any opcode, plain or after the 0xCB prefix, from register and flag      *)
(* values as the CPU tests preset them (tests/cpu_execution.rs,            *)
(* tests/cgb_mode.rs).                                                     *)

MaxOpsSteps == 2

(* F as the tests preset it: clear, all four flags, and 0xF3.              *)
OpsFlags == {0, 240, 243}

OpsAs == {15, 154}

(* The stack is at 0xFFF0 and holds 0xFFFF.  Machines: the mode of the     *)
(* cartridge header, whether the program has                               *)
(* written 1 to KEY1, whether the machine is already in double speed.      *)
OpsEnvs ==
    {<<"Cgb", FALSE, FALSE>>, <<"Cgb", TRUE, FALSE>>, <<"Cgb", TRUE, TRUE>>,
     <<"Dmg", FALSE, FALSE>>, <<"Dmg", TRUE, FALSE>>}

(* The opcodes run on every machine and interrupt state; the others run on *)
(* the first machine with no interrupt pending.                            *)
OpsSpecial == {OP_NOP, OP_STOP, OP_HALT, OP_EI, OP_DI, 241}

(* The operand bytes are 0x80 and 0xC0: a16 is 0xC080 and e8 is -128.      *)
OpsProgram(prefixed, opcode) ==
    IF prefixed THEN <<OP_CB, opcode, 0>> ELSE <<opcode, 128, 192>>

OpsBus(env, prog) ==
    LET fast(b) == ApuSpeed(b, env[3])
        armed(b) == IF env[2] THEN write8(b, AddrKey1, 1) ELSE b
        stack(b) == write8(write8(b, 65520, 255), 65521, 255)
    IN stack(armed(fast(BusNew(env[1], MakeRom(prog, SelfTestStart)))))

NoOpsStep ==
    [op |-> "none", val |-> -1, prefixed |-> FALSE, ret |-> 0, pre |-> CpuNew,
     bus |-> BusNew("Dmg", EmptyMem)]

InitOps ==
    /\ \E prefixed \in BOOLEAN, opcode \in 0..255, env \in OpsEnvs, f \in OpsFlags,
          a \in OpsAs, ime \in BOOLEAN, halted \in BOOLEAN, irq \in BOOLEAN :
          /\ (prefixed \/ opcode \notin OpsSpecial) =>
                env = <<"Cgb", FALSE, FALSE>> /\ ~ime /\ ~halted /\ ~irq
          /\ cpu = [CpuNew EXCEPT !.pc = SelfTestStart, !.sp = 65520, !.a = a, !.f = f,
                                  !.b = 192, !.c = 1, !.d = 192, !.e = 2, !.h = 192, !.l = 0,
                                  !.ime = ime, !.halted = halted]
          /\ bus = [OpsBus(env, OpsProgram(prefixed, opcode)) EXCEPT
                       !.ie = IF irq THEN 1 ELSE 0, !.iflag = IF irq THEN 1 ELSE 0]
          /\ hist = [steps |-> 0, prefixed |-> prefixed]
    /\ last = NoOpsStep

OpsStep ==
    LET stepped(s) ==
            /\ cpu' = s.m.cpu
            /\ bus' = s.m.bus
            /\ last' = [op |-> s.kind, val |-> s.opcode,
                        prefixed |-> (s.kind = "exec" /\ s.opcode = OP_CB),
                        ret |-> s.ret, pre |-> cpu, bus |-> bus]
    IN /\ hist.steps < MaxOpsSteps
       /\ stepped(step([cpu |-> cpu, bus |-> bus]))
       /\ hist' = [hist EXCEPT !.steps = @ + 1]

NextOps == OpsStep

SpecOps == InitOps /\ [][NextOps]_vars

(* The step executed STOP.                                                 *)
StopStep == last.op = "exec" /\ last.val = OP_STOP

(* KEY1 as the CPU reads it, bits 7 and 0.                                 *)
Key1Speed(b) == is_cgb(b) /\ TestBit(read_key1(b), 7)

Key1Armed(b) == is_cgb(b) /\ TestBit(read_key1(b), 0)

(* C23: STOP on a CGB machine with KEY1 bit 0 set toggles KEY1 bit 7,      *)
(* clears bit 0, returns 8 and leaves the CPU running; STOP with no switch *)
(* armed, or on DMG whatever was written to KEY1, changes no speed state   *)
(* and halts the CPU.                                                      *)
C23_StopSpeedSwitch ==
    StopStep =>
      IF Key1Armed(last.bus)
      THEN /\ Key1Speed(bus) = ~Key1Speed(last.bus)
           /\ bus.cgb_double_speed = ~last.bus.cgb_double_speed
           /\ ~Key1Armed(bus) /\ ~bus.cgb_speed_switch_prepare
           /\ last.ret = 8
           /\ ~cpu.halted
      ELSE /\ bus.cgb_double_speed = last.bus.cgb_double_speed
           /\ bus.cgb_speed_switch_prepare = last.bus.cgb_speed_switch_prepare
           /\ read_key1(bus) = read_key1(last.bus)
           /\ cpu.halted

(* STOP switched a CGB machine back from double speed.                     *)
C23_Witness ==
    /\ StopStep /\ Key1Armed(last.bus) /\ Key1Speed(last.bus)
    /\ ~Key1Speed(bus) /\ ~cpu.halted

StepCycles == {4, 8, 12, 16, 20, 24}

(* C25: whatever a call of step does - a plain, prefixed or undocumented   *)
(* opcode, the HALT idle, STOP, an interrupt dispatch - it returns 4, 8,   *)
(* 12, 16, 20 or 24.                                                       *)
C25_StepCycles == last.op # "none" => last.ret \in StepCycles

(* A prefixed instruction on (HL) returned 16.                             *)
C25_Witness ==
    /\ last.op = "exec" /\ last.prefixed /\ last.ret = 16
    /\ hl(cpu) = 49152 /\ Get(bus.wram, 0) # 0

(* C26 as stated: F & 0x0F is 0 after every instruction, whatever the CPU  *)
(* state it ran from.                                                      *)
C26_Original == last.op # "none" => cpu.f % 16 = 0

(* The step wrote F: POP AF, or an instruction that sets or clears a flag. *)
WritesF == last.op = "exec" /\ cpu.f # last.pre.f

(* C26: from a state whose F has a clear low nibble, F & 0x0F is 0 after   *)
(* every step; POP AF and every step that changes F leave it 0 whatever F  *)
(* was.                                                                    *)
C26_FlagLowNibble ==
    last.op # "none" =>
      /\ last.pre.f % 16 = 0 => cpu.f % 16 = 0
      /\ (WritesF \/ (last.op = "exec" /\ last.val = 241)) => cpu.f % 16 = 0

(* POP AF took 0xFFFF from the stack and left F = 0xF0.                    *)
C26_Witness ==
    /\ last.op = "exec" /\ last.val = 241 /\ last.pre.f % 16 # 0
    /\ cpu.a = 255 /\ cpu.f = 240

----------------------------------------------------------------------------
(* SpecSave: an MBC3 cartridge with RTC, 8 KiB of RAM and a battery, whose *)
(* save file was loaded at start-up, driven by CPU writes to its registers *)
(* and RAM (tests/cartridge_persistence.rs).                               *)

MaxSaveOps == 4

(* The RTC payloads of the save files loaded at start-up: 00:00:59 and day *)
(* 511 23:59:59, each 8 base cycles before the next second.                *)
SavedClocks ==
    {<<59, 0, 0, 0, 0>> \o to_le_bytes(CYCLES_PER_SECOND - 8),
     <<59, 59, 23, 255, 1>> \o to_le_bytes(CYCLES_PER_SECOND - 8)}

(* A save file as save_to_path lays it out: RAM, "GBSV1", length, payload. *)
SaveFile(ram, extra) ==
    extend_from_slice(ram, SAVE_MAGIC \o to_le_bytes(Len(extra)) \o extra)

(* RAM enable, RTC and bank selects, the two latch writes, and data: 59    *)
(* and 0x40 (the halt bit, when day-high is selected).                     *)
SaveWrites ==
    {<<0, 10>>, <<16384, 8>>, <<16384, 12>>, <<16384, 0>>,
     <<24576, 0>>, <<24576, 1>>, <<40960, 59>>, <<40960, 64>>}

NoSaveOp == [op |-> "none", addr |-> -1, val |-> -1, pre |-> Mbc3Cart]

InitSave ==
    /\ cpu = CpuNew
    /\ \E extra \in SavedClocks :
          LET loaded(r) ==
                  /\ r.ok
                  /\ bus = [BusNew("Dmg", EmptyMem) EXCEPT !.cart = r.cart]
          IN loaded(load_from_path(Mbc3Cart, SaveFile(Mbc3Cart.ram, extra)))
    /\ hist = [ops |-> 0]
    /\ last = NoSaveOp

(* Cpu::write8 on a cartridge address.                                     *)
SaveWrite(addr, val) ==
    /\ hist.ops < MaxSaveOps
    /\ bus' = bus_tick(write8(bus, addr, val), 4)
    /\ last' = [op |-> "write", addr |-> addr, val |-> val, pre |-> bus.cart]
    /\ hist' = [ops |-> hist.ops + 1]
    /\ UNCHANGED cpu

NextSave == \E w \in SaveWrites : SaveWrite(w[1], w[2])

SpecSave == InitSave /\ [][NextSave]_vars

(* The cartridge built from the same ROM, after importing the save file    *)
(* that the cartridge c exports.                                           *)
Reimported(c) == load_from_path(Mbc3Cart, save_to_path(c).data)

(* RTC register reg as a program reads it: RAM enabled, reg selected, a    *)
(* read of 0xA000.                                                         *)
RtcRead(c, reg) ==
    mbc_read_ram(mbc_write_rom(mbc_write_rom(c.mbc, 0, 10), 16384, reg), c.ram, 40960)

(* C24: exporting the save of a battery-backed cartridge and importing it  *)
(* into a cartridge built from the same ROM gives the same RAM bytes, the  *)
(* same value read from every RTC register and the same sub-second         *)
(* position.                                                               *)
C24_RoundTrip ==
    /\ save_to_path(bus.cart).some
    /\ Reimported(bus.cart).ok
    /\ Reimported(bus.cart).cart.ram = bus.cart.ram
    /\ \A reg \in 8..12 : RtcRead(Reimported(bus.cart).cart, reg) = RtcRead(bus.cart, reg)
    /\ Reimported(bus.cart).cart.mbc.rtc_cycle_accum = bus.cart.mbc.rtc_cycle_accum

(* What the round trip does keep: the RAM, the live clock and the          *)
(* sub-second position.                                                    *)
SaveKeepsLive ==
    /\ Reimported(bus.cart).ok
    /\ Reimported(bus.cart).cart.ram = bus.cart.ram
    /\ Reimported(bus.cart).cart.mbc.rtc_live = bus.cart.mbc.rtc_live
    /\ Reimported(bus.cart).cart.mbc.rtc_cycle_accum = bus.cart.mbc.rtc_cycle_accum
    /\ ~Reimported(bus.cart).cart.mbc.rtc_latched.some

----------------------------------------------------------------------------
(* SpecIo: CPU writes and reads of IF and DIV, each followed by its        *)
(* M-cycle, on machines whose peripherals are at rest or about to request  *)
(* an interrupt (tests/memory_map.rs, tests/timer_dma.rs).                 *)

MaxIoOps == 3

(* At rest; TIMA 4 cycles from its overflow; a serial transfer 8 cycles    *)
(* from its end; the LCD off with the LYC source selected; the LCD on with *)
(* the OAM source selected, 8 cycles before line 1; an OAM DMA running; a  *)
(* CGB in double speed.                                                    *)
IoEnvs == {"quiet", "timer", "serial", "stat", "lcd", "dma", "fast"}

IoBus(env) ==
    LET b == BusNew(IF env = "fast" THEN "Cgb" ELSE "Dmg", EmptyMem)
    IN CASE env = "timer" -> bus_tick(Harness(b, "timer"), 12)
         [] env = "serial" ->
              bus_tick(write8(write8(b, AddrSb, 153), AddrSc, 129),
                       SERIAL_INTERNAL_TRANSFER_CYCLES - 8)
         [] env = "stat" -> write8(b, AddrStat, 64)
         [] env = "lcd" ->
              bus_tick(write8(write8(b, AddrStat, 32), AddrLcdc, 128),
                       DotsPerLine - EnableDots - 8)
         [] env = "dma" -> bus_tick(write8(b, AddrDma, 192), 4)
         [] env = "fast" -> ApuSpeed(b, TRUE)
         [] OTHER -> b

IoAddrs == {AddrIf, AddrDiv}

IoValues == {0, 15, 255}

(* Idle cycles: one M-cycle, and the 256 cycles of one step of DIV.        *)
IoIdles == {4, 256}

NoIoOp == [op |-> "none", addr |-> -1, val |-> -1, ret |-> -1, pre |-> BusNew("Dmg", EmptyMem)]

InitIo ==
    /\ cpu = CpuNew
    /\ \E env \in IoEnvs : bus = IoBus(env)
    /\ hist = [ops |-> 0, prev |-> NoIoOp]
    /\ last = NoIoOp

(* Cpu::write8.                                                            *)
IoWrite(addr, val) ==
    /\ hist.ops < MaxIoOps
    /\ bus' = bus_tick(write8(bus, addr, val), 4)
    /\ last' = [op |-> "write", addr |-> addr, val |-> val, ret |-> -1, pre |-> bus]
    /\ hist' = [ops |-> hist.ops + 1, prev |-> last]
    /\ UNCHANGED cpu

(* Cpu::read8.                                                             *)
IoRead(addr) ==
    LET got(r) ==
            /\ bus' = bus_tick(r.b, 4)
            /\ last' = [op |-> "read", addr |-> addr, val |-> -1, ret |-> r.v, pre |-> bus]
    IN /\ hist.ops < MaxIoOps
       /\ got(read8(bus, addr))
       /\ hist' = [ops |-> hist.ops + 1, prev |-> last]
       /\ UNCHANGED cpu

(* Cpu::tick_idle.                                                         *)
IoIdle(cycles) ==
    /\ hist.ops < MaxIoOps
    /\ bus' = bus_tick(bus, cycles)
    /\ last' = [op |-> "idle", addr |-> -1, val |-> -1, ret |-> -1, pre |-> bus]
    /\ hist' = [ops |-> hist.ops + 1, prev |-> last]
    /\ UNCHANGED cpu

NextIo ==
    \/ \E addr \in IoAddrs, val \in IoValues : IoWrite(addr, val)
    \/ \E addr \in IoAddrs : IoRead(addr)
    \/ \E n \in IoIdles : IoIdle(n)

SpecIo == InitIo /\ [][NextIo]_vars

(* A CPU read of addr that follows a CPU write of addr at once.            *)
ReadBack(addr) ==
    /\ last.op = "read" /\ last.addr = addr
    /\ hist.prev.op = "write" /\ hist.prev.addr = addr

(* The access finds an OAM DMA running, which leaves only HRAM to the CPU. *)
DmaBlocked(b) == b.oam_dma.active

(* The IF bits of the peripherals that can request during an M-cycle on    *)
(* the bus b: the timer when enabled, a serial transfer in progress, the   *)
(* PPU when the LCD is on or a STAT source is selected.                    *)
LiveRequests(b) ==
    (IF TestBit(b.timer.tac, 2) THEN InterruptBit(IntTimer) ELSE 0)
    + (IF b.serial.in_progress THEN InterruptBit(IntSerial) ELSE 0)
    + (IF b.ppu.lcd_enabled THEN InterruptBit(IntVBlank) ELSE 0)
    + (IF b.ppu.lcd_enabled \/ BitAnd(Get(b.io, IO_STAT), 120) # 0
       THEN InterruptBit(IntLcdStat) ELSE 0)

(* C27 as stated: the read returns v | 0xE0 in every machine state.        *)
C27_Original == ReadBack(AddrIf) => last.ret = BitOr(hist.prev.val, 224)

(* C27: with no OAM DMA running the read returns v | 0xE0, together with   *)
(* whatever running peripherals requested during the M-cycle of the write  *)
(* and nothing else; with an OAM DMA running it returns 0xFF.  A bus read  *)
(* that follows the bus write with no cycle between returns v | 0xE0.      *)
C27_IfReadBack ==
    /\ ~DmaBlocked(bus) =>
          \A v \in IoValues : read8(write8(bus, AddrIf, v), AddrIf).v = BitOr(v, 224)
    /\ ReadBack(AddrIf) =>
      /\ DmaBlocked(last.pre) => last.ret = 255
      /\ (~DmaBlocked(hist.prev.pre) /\ ~DmaBlocked(last.pre)) =>
            /\ BitAnd(last.ret, BitOr(hist.prev.val, 224)) = BitOr(hist.prev.val, 224)
            /\ ClearBits(last.ret, BitOr(hist.prev.val, 224))
               = BitAnd(ClearBits(last.ret, BitOr(hist.prev.val, 224)),
                        LiveRequests(hist.prev.pre))
            /\ LiveRequests(hist.prev.pre) = 0 => last.ret = BitOr(hist.prev.val, 224)

(* 0x0F written and 0xEF read back on a machine at rest.                   *)
C27_Witness ==
    /\ ReadBack(AddrIf) /\ hist.prev.val = 15 /\ last.ret = 239
    /\ LiveRequests(hist.prev.pre) = 0 /\ ~DmaBlocked(hist.prev.pre)

(* C28 as stated: the read returns 0 in every machine state.               *)
C28_Original == ReadBack(AddrDiv) => last.ret = 0

(* C28: with no OAM DMA running a read of DIV right after a write to it    *)
(* returns 0, whatever was written; with an OAM DMA running the write is   *)
(* dropped and the read returns 0xFF.                                      *)
C28_DivReadBack ==
    ReadBack(AddrDiv) =>
      /\ DmaBlocked(last.pre) => last.ret = 255
      /\ DmaBlocked(hist.prev.pre) =>
            bus.timer.counter = U16(hist.prev.pre.timer.counter + 8)
      /\ (~DmaBlocked(hist.prev.pre) /\ ~DmaBlocked(last.pre)) => last.ret = 0

(* DIV had counted to 1 or more when it was written.                       *)
C28_Witness ==
    /\ ReadBack(AddrDiv) /\ last.ret = 0 /\ ~DmaBlocked(hist.prev.pre)
    /\ read_div(hist.prev.pre) >= 1 /\ hist.prev.val = 255

(* The last action was a CPU write that cleared NR52 bit 7 on a powered    *)
(* APU.                                                                    *)
PowerOff == last.op = "write" /\ last.addr = NR52 /\ last.pre.powered /\ ~TestBit(last.val, 7)

(* The register bytes of a channel that some code reads back or acts on:   *)
(* all of NRx0, NRx2, NRx3, NRx4 and the duty bits of NRx1.  The low six   *)
(* bits of NR11, NR21, NR41 and the whole of NR31 are the length load,     *)
(* which is write-only and held in length_counter.                         *)
RegistersZero(ch) ==
    /\ ch.nrx0 = 0 /\ ch.nrx2 = 0 /\ ch.nrx3 = 0 /\ ch.nrx4 = 0
    /\ IsSquare(ch) => ch.nrx1 \div 64 = 0

(* C29: clearing NR52 bit 7 zeroes every register NR10-NR51 (each reads as *)
(* a zeroed register does and holds no set bit that is ever read), leaves  *)
(* all four channels disabled and the 16 bytes of wave RAM unchanged; the  *)
(* length counters keep their values on DMG and are cleared on CGB.        *)
C29_PowerOffClears ==
    PowerOff =>
        /\ \A addr \in NR10..NR51 :
              read8(bus, addr).v = read_register(ApuNew(bus.apu.cgb_mode), addr)
        /\ \A ch \in 1..4 :
              /\ RegistersZero(ApuChannel(bus.apu, ch))
              /\ ~ApuChannel(bus.apu, ch).enabled
              /\ ApuChannel(bus.apu, ch).length_counter =
                    IF bus.apu.cgb_mode THEN 0 ELSE ApuChannel(last.pre, ch).length_counter
        /\ bus.apu.nr50 = 0 /\ bus.apu.nr51 = 0
        /\ read8(bus, NR52).v = 112
        /\ \A i \in 0..15 :
              Get(bus.apu.ch3.wave_ram, i) = Get(last.pre.ch3.wave_ram, i)

(* A DMG has been powered off while its channel was sounding with a length *)
(* counter running, the master volume set and a byte in wave RAM.          *)
C29_Witness ==
    /\ PowerOff
    /\ ~bus.apu.cgb_mode
    /\ ApuChannel(last.pre, hist.ch).enabled
    /\ ApuChannel(last.pre, hist.ch).length_counter > 0
    /\ ApuChannel(last.pre, hist.ch).nrx1 > 0
    /\ ApuChannel(bus.apu, hist.ch).length_counter > 0
    /\ last.pre.nr50 = ApuVolume
    /\ Get(bus.apu.ch3.wave_ram, 3) = ApuWaveByte

----------------------------------------------------------------------------

(* The last action was a CPU write to a sound register.                    *)
ApuWriteStep == last.op = "write" /\ last.addr \in NR10..WAVE_RAM_END

(* The last action was a CPU write that set NR52 bit 7 on a CGB whose APU  *)
(* was powered off.                                                        *)
PowerOnCgb ==
    /\ ApuWriteStep /\ last.addr = NR52
    /\ last.pre.cgb_mode /\ ~last.pre.powered /\ TestBit(last.val, 7)

(* C30, as stated: the value delivered with a CPU write to a sound         *)
(* register is the timer counter at the end of the write's M-cycle, the    *)
(* counter at the start plus 4.                                            *)
C30_EndOfCycleCounter ==
    ApuWriteStep =>
        /\ last.sent = bus.timer.counter
        /\ last.sent = U16(last.counter + 4)

(* What holds at either speed: the delivered value is the counter at the   *)
(* start plus 4, which is the counter at the end of the M-cycle at normal  *)
(* speed; a CGB power-on loads its low 13 bits into the sub-counter, which *)
(* the M-cycle of the write then advances.                                 *)
DeliveredStartPlus4 ==
    /\ ApuWriteStep =>
          /\ last.sent = U16(last.counter + 4)
          /\ ~bus.cgb_double_speed => last.sent = bus.timer.counter
    /\ PowerOnCgb =>
          /\ bus.apu.powered
          /\ bus.apu.frame_seq_counter =
                ((last.sent % 8192) + U16(bus.timer.counter - last.counter)) % 8192

----------------------------------------------------------------------------

(* C31 is checked in SpecOps.  The base cycles by which the last step      *)
(* advanced the peripherals, read off the timer's counter (no program of   *)
(* SpecOps writes DIV).                                                    *)
BusAdvance == U16(bus.timer.counter - last.bus.timer.counter + 65536)

(* C31: a call of step passes to Bus::tick, over its memory accesses and   *)
(* its idle cycles together, exactly the cycles it returns (step_cycles is *)
(* their running total, so the accesses never pass the total), and the     *)
(* peripherals have advanced by that many CPU cycles: as many base cycles  *)
(* at normal speed, half as many in double speed.                          *)
C31_StepAdvancesBus ==
    last.op # "none" =>
        /\ cpu.step_cycles = last.ret
        /\ BusAdvance = base_cycles(last.bus, last.ret)

(* INC BC, one fetch and 4 idle cycles, advanced the timer by 8.           *)
C31_Witness ==
    /\ last.op = "exec" /\ last.val = 3 /\ ~last.prefixed
    /\ last.ret = 8 /\ BusAdvance = 8
    /\ bc(cpu) = U16(bc(last.pre) + 1)

----------------------------------------------------------------------------

----------------------------------------------------------------------------
(* SpecOrder: the M-cycles of CPU accesses on a machine whose LCD is on,   *)
(* started late in the OAM scan of line 0 ("scan", dot 64) or late in its  *)
(* drawing ("draw", dot 236).  The CPU starts an OAM DMA or an HBlank DMA, *)
(* resets DIV, reads DIV and idles, so that the transfers meet the PPU's   *)
(* entries to modes 3 and 0.                                               *)

MaxOrderCycles == 24

ScanDot == 64

DrawDot == 236

OrderEnvs == {"scan", "draw"}

OrderWrites == {<<AddrDma, 192>>, <<AddrHdma5, 129>>, <<AddrDiv, 0>>}

OrderBus(mode, env) ==
    bus_tick(write8([DmaPreset(mode) EXCEPT !.rom = [i \in HdmaWindow |-> (i % 255) + 1]],
                    AddrLcdc, 128),
             (IF env = "scan" THEN ScanDot ELSE DrawDot) - EnableDots)

InitOrder ==
    /\ cpu = CpuNew
    /\ \E mode \in {"Dmg", "Cgb"}, env \in OrderEnvs : bus = OrderBus(mode, env)
    /\ last = NoOp
    /\ hist = [now |-> 0, dma_t |-> -1, page |-> -1, oam0 |-> EmptyMem]

NextOrder ==
    \/ CpuRead8(AddrDiv, MaxOrderCycles)
    \/ \E w \in OrderWrites : CpuWrite8(w[1], w[2], MaxOrderCycles)
    \/ TickIdle(4, MaxOrderCycles)

SpecOrder == InitOrder /\ [][NextOrder]_vars

(* The step made the PPU leave the OAM scan and draw its line.             *)
Mode3Entry == bus.ppu.mode = 2 /\ bus'.ppu.mode = 3

(* C32: the access of an M-cycle is applied before its tick, and the tick  *)
(* advances the OAM DMA before the PPU and the PPU before the HDMA: a      *)
(* write of DIV leaves the counter at the cycles of its own tick and a     *)
(* write of DMA has its start-up delay run down by them; the line drawn at *)
(* an entry to mode 3 is drawn from OAM with the bytes the DMA copied in   *)
(* that tick; and a pending HBlank block is copied in the tick that enters *)
(* mode 0.                                                                 *)
C32_AccessThenOrderedTick ==
    [][/\ (last'.op = "write" /\ last'.addr = AddrDiv /\ ~DmaBlocked(bus)) =>
             bus'.timer.counter = last'.cost
       /\ (last'.op = "write" /\ last'.addr = AddrDma /\ ~DmaBlocked(bus)) =>
             /\ bus'.oam_dma.active
             /\ bus'.oam_dma.startup_delay = OAM_DMA_CYCLES_PER_BYTE - last'.cost
       /\ Mode3Entry =>
             /\ bus'.ppu.framebuffer = [ly |-> bus.ppu.ly, oam |-> bus'.oam]
             /\ bus.oam_dma.active =>
                   \A k \in 0..(bus'.oam_dma.next_byte - 1) :
                       Get(bus'.ppu.framebuffer.oam, k) = Get(bus.wram, k)
       /\ (/\ Mode0Entry /\ is_cgb(bus)
           /\ bus.cgb_hdma_active \/ (Hdma5Write /\ ~DmaBlocked(bus))) =>
             /\ BlockCopied
             /\ bus'.cgb_hdma_blocks_remaining = 1]_vars

(* An OAM DMA started at dot 72 copied its first byte in the tick that     *)
(* reached dot 80, and line 0 was drawn from OAM holding that byte.        *)
C32_Witness ==
    /\ bus.ppu.mode = 3 /\ bus.ppu.dots = Mode3Dot /\ hist.dma_t = 8
    /\ bus.oam_dma.next_byte = 1
    /\ Get(hist.oam0, 0) # Get(bus.wram, 0)
    /\ bus.ppu.framebuffer = [ly |-> 0, oam |-> Put(hist.oam0, 0, Get(bus.wram, 0))]

----------------------------------------------------------------------------
(* SpecSeq: the frame sequencer.  Every channel has been triggered with    *)
(* its length counter armed at 16, the envelopes fall with period 1 and    *)
(* the sweep of channel 1 has period 2.  The CPU idles for half a period   *)
(* or a whole period of the sequencer and switches the APU off and on      *)
(* through NR52; hist.now counts base cycles.                              *)

MaxSeqCycles == 73728

MaxSeqWrites == 2

SeqIdles == {4096, 8192}

SeqSetup ==
    <<<<NR10, 33>>, <<NR10 + 1, 48>>, <<NR10 + 2, 241>>, <<NR10 + 3, 0>>, <<NR10 + 4, 193>>,
      <<NR21, 48>>, <<NR22, 241>>, <<NR24, 192>>,
      <<NR30, 128>>, <<NR30 + 1, 240>>, <<NR30 + 4, 192>>,
      <<NRx(4, 1), 48>>, <<NRx(4, 2), 241>>, <<NRx(4, 4), 192>>>>

RECURSIVE SeqPreset(_, _)
SeqPreset(b, k) ==
    IF k > Len(SeqSetup) THEN b
    ELSE SeqPreset(write8(b, SeqSetup[k][1], SeqSetup[k][2]), k + 1)

InitSeq ==
    /\ cpu = CpuNew
    /\ \E p \in ApuPresets : bus = SeqPreset(ApuSpeed(BusNew(p[1], EmptyMem), p[2]), 1)
    /\ hist = [now |-> 0, writes |-> 0, ticks |-> 0, ch |-> 1]
    /\ last = NoApuOp

(* Cpu::write8 on NR52.                                                    *)
SeqPower(val) ==
    /\ hist.writes < MaxSeqWrites
    /\ hist.now + 4 <= MaxSeqCycles
    /\ ApuWrite(NR52, val)

(* Cpu::tick_idle for n base cycles.                                       *)
SeqIdle(n) ==
    LET cycles == IF bus.cgb_double_speed THEN 2 * n ELSE n
    IN /\ hist.now + n <= MaxSeqCycles
       /\ bus' = bus_tick(bus, cycles)
       /\ last' = [op |-> "idle", addr |-> -1, val |-> -1, cost |-> n,
                   pre |-> bus.apu, counter |-> bus.timer.counter, sent |-> -1]
       /\ hist' = [hist EXCEPT !.now = @ + n]
       /\ UNCHANGED cpu

NextSeq ==
    \/ \E val \in ApuPowerValues : SeqPower(val)
    \/ \E n \in SeqIdles : SeqIdle(n)

SpecSeq == InitSeq /\ [][NextSeq]_vars

(* The idle step just taken made the sequencer take a step.                *)
SeqDue ==
    /\ last.op = "idle" /\ last.pre.powered
    /\ last.pre.frame_seq_counter + last.cost >= FRAME_SEQUENCER_PERIOD_CYCLES

(* The idle step clocked the length counter of channel ch: an armed        *)
(* counter went down by one (and switched the channel off at zero).        *)
LengthClocked(ch) ==
    LET old == ApuChannel(last.pre, ch)
        new == ApuChannel(bus.apu, ch)
    IN new.length_counter = old.length_counter - 1
       /\ new.enabled = (old.enabled /\ new.length_counter > 0)

LengthArmed(ch) ==
    TestBit(ApuChannel(last.pre, ch).nrx4, 6) /\ ApuChannel(last.pre, ch).length_counter > 0

(* The fields of channel 1 that a sweep clock works on, and the envelope   *)
(* fields of a channel.                                                    *)
SweepState(c) == <<c.sweep_timer, c.sweep_shadow_freq, frequency(c), c.enabled>>

EnvelopeState(c) == <<c.env_timer, c.volume>>

(* C33: over an idle tick of n <= 8192 base cycles with the APU on, the    *)
(* sequencer's cycle count goes to (count + n) mod 8192 and its step goes  *)
(* up by one, modulo 8, exactly when the count reaches 8192; the step left *)
(* clocks armed length counters when it is even and only then, the sweep   *)
(* of channel 1 when it is 2 or 6 and only then, the envelopes when it is  *)
(* 7 and only then.  With the APU off, step and count stay.                *)
C33_FrameSequencer ==
    last.op = "idle" =>
        LET pre == last.pre
            s == pre.frame_seq_step
            total == pre.frame_seq_counter + last.cost
        IN IF ~pre.powered
           THEN /\ bus.apu.frame_seq_step = s
                /\ bus.apu.frame_seq_counter = pre.frame_seq_counter
           ELSE /\ bus.apu.frame_seq_counter = total % FRAME_SEQUENCER_PERIOD_CYCLES
                /\ bus.apu.frame_seq_step = IF SeqDue THEN (s + 1) % 8 ELSE s
                /\ bus.apu.frame_seq_step \in 0..7
                /\ \A ch \in 1..4 :
                      LengthArmed(ch) => (LengthClocked(ch) <=> (SeqDue /\ s % 2 = 0))
                /\ pre.ch1.sweep_enabled =>
                      (SweepState(bus.apu.ch1) # SweepState(pre.ch1)
                          <=> (SeqDue /\ s \in {2, 6}))
                /\ \A ch \in {1, 2, 4} :
                      ApuChannel(pre, ch).volume > 0 =>
                          (EnvelopeState(ApuChannel(bus.apu, ch))
                              # EnvelopeState(ApuChannel(pre, ch))
                            <=> (SeqDue /\ s = 7))

(* The sequencer left step 7 for step 0 and the envelopes took one off the *)
(* volume of 15, the second sweep of the round having raised the frequency *)
(* of channel 1.                                                          *)
C33_Witness ==
    /\ SeqDue /\ last.pre.frame_seq_step = 7 /\ bus.apu.frame_seq_step = 0
    /\ hist.now = 8 * FRAME_SEQUENCER_PERIOD_CYCLES /\ hist.writes = 0
    /\ bus.apu.ch2.volume = 14 /\ last.pre.ch2.volume = 15
    /\ bus.apu.ch3.length_counter = 12
    /\ frequency(bus.apu.ch1) > 256

----------------------------------------------------------------------------
(* SpecRtc: the MBC3 cartridge of SpecSave with RAM and RTC enabled, its   *)
(* clock loaded 8 or 16 base cycles before the next second.  The CPU       *)
(* selects the seconds or the day-high register, writes the latch          *)
(* register, writes and reads the selected register.  hist keeps what a    *)
(* reader of the writes knows: latch_prev, the last value written to       *)
(* 0x6000-0x7FFF (-1: none); snap, the live clock at the latest write of 1 *)
(* there that followed a write of 0; set, the live clock as the latest     *)
(* write of an RTC register left it.                                       *)

MaxRtcOps == 6

RtcClocks ==
    {<<59, 0, 0, 0, 0>> \o to_le_bytes(CYCLES_PER_SECOND - 8),
     <<59, 59, 23, 255, 1>> \o to_le_bytes(CYCLES_PER_SECOND - 16)}

AddrRtcSelect == 16384
AddrRtcLatch == 24576
AddrRtcData == 40960

RtcWrites ==
    {<<AddrRtcSelect, 8>>, <<AddrRtcSelect, 12>>,
     <<AddrRtcLatch, 0>>, <<AddrRtcLatch, 1>>,
     <<AddrRtcData, 64>>, <<AddrRtcData, 0>>}

NoRtcOp == [op |-> "none", addr |-> -1, val |-> -1, ret |-> -1, pre |-> Mbc3Cart]

InitRtc ==
    /\ cpu = CpuNew
    /\ \E extra \in RtcClocks :
          LET loaded(r) ==
                  /\ r.ok
                  /\ bus = write8([BusNew("Dmg", EmptyMem) EXCEPT !.cart = r.cart], 0, 10)
                  /\ hist = [ops |-> 0, latch_prev |-> -1, snap |-> NoRtc,
                             set |-> r.cart.mbc.rtc_live]
          IN loaded(load_from_path(Mbc3Cart, SaveFile(Mbc3Cart.ram, extra)))
    /\ last = NoRtcOp

RtcSelected(c) == c.mbc.ram_enabled /\ c.mbc.ram_rtc_select \in 8..12

(* Cpu::write8 on a cartridge address.                                     *)
RtcWrite(addr, val) ==
    LET latch == addr = AddrRtcLatch
        b1 == write8(bus, addr, val)
    IN /\ hist.ops < MaxRtcOps
       /\ bus' = bus_tick(b1, 4)
       /\ last' = [op |-> "write", addr |-> addr, val |-> val, ret |-> -1, pre |-> bus.cart]
       /\ hist' = [ops |-> hist.ops + 1,
                   latch_prev |-> IF latch THEN val ELSE hist.latch_prev,
                   snap |-> IF latch /\ hist.latch_prev = 0 /\ val = 1
                            THEN [some |-> TRUE, rtc |-> bus.cart.mbc.rtc_live]
                            ELSE hist.snap,
                   set |-> IF addr = AddrRtcData /\ RtcSelected(bus.cart)
                           THEN b1.cart.mbc.rtc_live ELSE hist.set]
       /\ UNCHANGED cpu

(* Cpu::read8 of the selected register.                                    *)
RtcReadData ==
    LET r == read8(bus, AddrRtcData)
    IN /\ hist.ops < MaxRtcOps
       /\ bus' = bus_tick(r.b, 4)
       /\ last' = [op |-> "read", addr |-> AddrRtcData, val |-> -1, ret |-> r.v,
                   pre |-> bus.cart]
       /\ hist' = [hist EXCEPT !.ops = @ + 1]
       /\ UNCHANGED cpu

NextRtc ==
    \/ \E w \in RtcWrites : RtcWrite(w[1], w[2])
    \/ RtcReadData

SpecRtc == InitRtc /\ [][NextRtc]_vars

(* C34: once a write of 0 to the latch register has been followed by a     *)
(* write of 1, a read of the selected RTC register returns that register   *)
(* of the clock as it was at the latest such pair of writes, whatever the  *)
(* live clock has done since; no other write takes a snapshot; and a       *)
(* halted clock stays as its registers were last written, so that latching *)
(* it returns the value at halt time.                                      *)
C34_RtcLatch ==
    /\ bus.cart.mbc.rtc_latched = hist.snap
    /\ (last.op = "read" /\ RtcSelected(last.pre) /\ hist.snap.some) =>
          last.ret = rtc_read_reg(hist.snap.rtc, last.pre.mbc.ram_rtc_select)
    /\ rtc_halted(bus.cart.mbc.rtc_live) => bus.cart.mbc.rtc_live = hist.set

(* A read of the seconds returned the 59 latched before the minute turned, *)
(* the live clock having gone on to second 0.                              *)
C34_Witness ==
    /\ last.op = "read" /\ last.pre.mbc.ram_rtc_select = 8 /\ last.ret = 59
    /\ hist.snap.some /\ hist.snap.rtc.sec = 59
    /\ last.pre.mbc.rtc_live.sec = 0 /\ last.pre.mbc.rtc_live.min = 1

----------------------------------------------------------------------------
(* SpecNoise: the noise channel triggered with each value of NR43 in turn  *)
(* (DAC on, NR44 = 0x80), then left to run while the CPU idles; hist.now   *)
(* counts the base cycles since the trigger.                               *)

NoiseIdles == {4, 8, 4096}

InitNoise ==
    /\ cpu = CpuNew
    /\ \E nr43 \in 0..255 :
          bus = write8(write8(write8(BusNew("Dmg", EmptyMem), NRx(4, 2), 240),
                              NRx(4, 3), nr43), NRx(4, 4), 128)
    /\ hist = [now |-> 0, writes |-> 0, ticks |-> 0, ch |-> 4]
    /\ last = NoApuOp

NextNoise == \E n \in NoiseIdles : ApuIdle(n)

SpecNoise == InitNoise /\ [][NextNoise]_vars

(* divisor[NR43 & 7] << (NR43 >> 4), as an integer.                        *)
NoisePeriod(nr43) == NoiseDivisors[(nr43 % 8) + 1] * (2 ^ (nr43 \div 16))

(* The LFSR after k clocks from its reset value.                           *)
LfsrAfter(nr43, k) == lfsr_clocks(LFSR_RESET, nr43, k)

(* C35: for every NR43, the LFSR of the triggered noise channel has been   *)
(* clocked once for each whole period divisor[NR43 & 7] << (NR43 >> 4) of  *)
(* base cycles that has passed since the trigger.                          *)
C35_NoisePeriod ==
    LET nr43 == bus.apu.ch4.nrx3
    IN bus.apu.ch4.lfsr = LfsrAfter(nr43, hist.now \div NoisePeriod(nr43))

(* What the channel does: the period is the low 16 bits of that integer,   *)
(* and a period of 0 clocks the LFSR on every base cycle.                  *)
NoisePeriodU16 ==
    LET nr43 == bus.apu.ch4.nrx3
        p == NoisePeriod(nr43) % 65536
    IN bus.apu.ch4.lfsr = LfsrAfter(nr43, hist.now \div (IF p = 0 THEN 1 ELSE p))

----------------------------------------------------------------------------
(* SpecFrame: one call of GameBoy::run_frame.  The program at 0x0000      *)
(* writes DIV and jumps back (LDH (0x04),A; JR -4), so that the divider is *)
(* where it was after every round; the APU has been switched off through   *)
(* NR52.  The LCD is off as Bus::new leaves it, or on and FrameDots dots    *)
(* into line FrameLine.  hist tells whether the call has returned.         *)

FrameDots == 400

FrameLine == 140

FrameProgram == <<224, 4, 24, 252>>

FrameEnvs == {"off", "on"}

(* Bus::tick of a line's cycles, n times over (the comparison has the I/O  *)
(* page worked out before the next line).                                  *)
RECURSIVE TickLines(_, _)
TickLines(b, n) ==
    IF n = 0 THEN b
    ELSE IF n = 1 THEN bus_tick(b, DotsPerLine)
    ELSE LET half == TickLines(b, n \div 2)
         IN IF half.io = EmptyMem THEN half ELSE TickLines(half, n - (n \div 2))

FrameBus(mode, env) ==
    LET b == write8(BusNew(mode, MakeRom(FrameProgram, 0)), NR52, 0)
    IN IF env = "off" THEN b
       ELSE TickLines(bus_tick(write8(b, AddrLcdc, 128), FrameDots - EnableDots),
                      FrameLine)

NoFrameOp == [op |-> "none", ret |-> 0]

InitFrame ==
    /\ cpu = CpuNew
    /\ \E mode \in {"Dmg", "Cgb"}, env \in FrameEnvs : bus = FrameBus(mode, env)
    /\ last = NoFrameOp
    /\ hist = [returned |-> FALSE, turn |-> FALSE]

(* One turn of the while loop: frame_ready is not set, so step.            *)
FrameStep ==
    LET stepped(s) ==
            /\ cpu' = s.m.cpu
            /\ bus' = s.m.bus
            /\ last' = [op |-> s.kind, ret |-> s.ret]
    IN /\ ~hist.returned
       /\ ~bus.ppu.frame_ready
       /\ stepped(step([cpu |-> cpu, bus |-> bus]))
       /\ hist' = [hist EXCEPT !.turn = ~@]

(* The loop exits: clear_frame_ready, and run_frame returns.               *)
FrameReturn ==
    /\ ~hist.returned
    /\ bus.ppu.frame_ready
    /\ bus' = [bus EXCEPT !.ppu.frame_ready = FALSE]
    /\ last' = [op |-> "return", ret |-> 0]
    /\ hist' = [returned |-> TRUE, turn |-> ~hist.turn]
    /\ UNCHANGED cpu

NextFrame == FrameStep \/ FrameReturn

SpecFrame == InitFrame /\ [][NextFrame]_vars

(* What hist shows of a step of the loop: until the call has returned,     *)
(* every step, a turn or the exit, flips hist.turn.                        *)
FrameTurn ==
    /\ ~hist.returned
    /\ hist' \in {[returned |-> r, turn |-> ~hist.turn] : r \in BOOLEAN}

(* The loop of run_frame is sequential code: until it has returned it has  *)
(* a turn or its exit to take (Cpu::step is total), and it takes it.       *)
SpecFrameFair == SpecFrame /\ WF_hist(FrameTurn)

(* C36: every call of run_frame returns: frame_ready is eventually set and *)
(* the loop exits.                                                         *)
C36_RunFrameReturns == <>hist.returned

(* With the LCD on and a program that leaves it on, the call does return.  *)
FrameReturnsWithLcdOn == bus.ppu.lcd_enabled ~> hist.returned

----------------------------------------------------------------------------
(* SpecLatch: the steps of SpecCpu on programs in which HALT follows EI,   *)
(* with INC A as the first opcode of every interrupt handler.              *)

LatchPrograms ==
    {<<OP_EI, OP_HALT, OP_NOP>>, <<OP_HALT, OP_NOP, OP_NOP>>, <<OP_EI, OP_NOP, OP_HALT>>}

LatchPcs == {336}

Vectors == {64, 72, 80, 88, 96}

InitLatch ==
    \E pc \in LatchPcs :
    /\ \E ime \in BOOLEAN, halted \in BOOLEAN :
          cpu = [CpuNew EXCEPT !.pc = pc, !.sp = 65534, !.ime = ime, !.halted = halted]
    /\ \E prog \in LatchPrograms, ie \in StartIes, iflag \in StartIfs :
          bus = [BusNew("Dmg", MakeRom(prog, pc)
                                  @@ [a \in Vectors |-> OP_INC_A]) EXCEPT
                    !.ie = ie, !.iflag = iflag]
    /\ last = NoStep
    /\ hist = [steps |-> 0, prev |-> NoStep, prev2 |-> NoStep]

NextLatch == CpuStep

SpecLatch == InitLatch /\ [][NextLatch]_vars

(* C37: the halt_bug latch is never set when an interrupt is dispatched,   *)
(* so it is not set after the dispatch and the first opcode of the handler *)
(* is fetched with PC advancing.                                           *)
C37_HaltBugLatch ==
    /\ Dispatched => ~last.pre.halt_bug /\ ~cpu.halt_bug
    /\ (last.op = "exec" /\ hist.prev.op = "interrupt") =>
          last.addr \in Vectors /\ cpu.pc = last.addr + 1

(* The latch meets a dispatch only when the HALT that set it was the       *)
(* instruction after EI, whose delayed enable came after the HALT.         *)
LatchAtDispatchAfterEiHalt ==
    (Dispatched /\ last.pre.halt_bug) =>
        /\ hist.prev.op = "exec" /\ hist.prev.val = OP_HALT
        /\ hist.prev.pre.ei_pending /\ ~hist.prev.pre.ime

----------------------------------------------------------------------------
(* C38: a dispatch leaves IME false, and IME then stays false until the    *)
(* handler executes RETI or EI (IME rising after the instruction that      *)
(* follows the EI): a step that raises IME is RETI or follows an executed  *)
(* EI, and no dispatch comes straight after a dispatch and one instruction *)
(* that is not RETI.                                                       *)
C38_ImeAfterDispatch ==
    /\ Dispatched => ~cpu.ime
    /\ (last.op = "exec" /\ ~last.pre.ime /\ cpu.ime) =>
          \/ last.val = OP_RETI
          \/ hist.prev.op = "exec" /\ hist.prev.val = OP_EI
    /\ (Dispatched /\ hist.prev.op = "exec" /\ hist.prev2.op = "interrupt") =>
          hist.prev.val = OP_RETI

(* IME rises only by RETI or by the delayed enable of an EI whose          *)
(* ei_pending is still set when the instruction starts, whichever          *)
(* instruction that is and whatever was dispatched in between.             *)
ImeRisesByRetiOrPendingEi ==
    (last.op = "exec" /\ ~last.pre.ime /\ cpu.ime) =>
        \/ last.val = OP_RETI
        \/ last.pre.ei_pending /\ last.val # OP_DI

(* ei_pending survives a dispatch.                                         *)
EiPendingKeptByDispatch ==
    Dispatched => cpu.ei_pending = last.pre.ei_pending

----------------------------------------------------------------------------
(* SpecSplit: from the presets of SpecOrder the CPU starts an OAM DMA or   *)
(* an HBlank DMA, and the bus is advanced by n cycles in one Bus::tick     *)
(* while last.split keeps what two ticks of k and n - k cycles give.       *)

MaxSplitCycles == 480

MaxSplitWriteCycles == 8

SplitTicks == {<<8, 4>>, <<456, 4>>, <<456, 100>>}

SplitWrites == {<<AddrDma, 192>>, <<AddrHdma5, 129>>}

InitSplit ==
    /\ cpu = CpuNew
    /\ \E mode \in {"Dmg", "Cgb"}, env \in OrderEnvs : bus = OrderBus(mode, env)
    /\ last = NoOp
    /\ hist = [now |-> 0, dma_t |-> -1, page |-> -1, oam0 |-> EmptyMem]

SplitTick(n, k) ==
    LET c == base_cycles(bus, n)
        ticked(whole, split) ==
            /\ bus' = whole
            /\ last' = [op |-> "tick", addr |-> k, val |-> n, ret |-> -1, cost |-> c,
                        split |-> split]
    IN /\ hist.now + c <= MaxSplitCycles
       /\ ticked(bus_tick(bus, n), bus_tick(bus_tick(bus, k), n - k))
       /\ hist' = Elapse(bus, c, FALSE, -1)
       /\ UNCHANGED cpu

NextSplit ==
    \/ \E w \in SplitWrites : CpuWrite8(w[1], w[2], MaxSplitWriteCycles)
    \/ \E t \in SplitTicks : SplitTick(t[1], t[2])

SpecSplit == InitSplit /\ [][NextSplit]_vars

(* C39: one Bus::tick of n cycles leaves the machine as two ticks of k and *)
(* n - k cycles do (the framebuffer left aside, its pixels not being part  *)
(* of the state kept here).                                                *)
C39_TickSplit ==
    last.op = "tick" =>
        bus = [last.split EXCEPT !.ppu.framebuffer = bus.ppu.framebuffer]

(* The timer, OAM DMA, PPU registers, APU, serial port and cartridge agree *)
(* however the tick is split; and so does the whole machine when no HBlank *)
(* DMA is active.                                                          *)
SplitAgreesOffHdma ==
    last.op = "tick" =>
        /\ bus.timer = last.split.timer
        /\ bus.oam_dma = last.split.oam_dma
        /\ bus.oam = last.split.oam
        /\ [bus.ppu EXCEPT !.framebuffer = ClearFramebuffer]
              = [last.split.ppu EXCEPT !.framebuffer = ClearFramebuffer]
        /\ bus.apu = last.split.apu
        /\ bus.serial = last.split.serial
        /\ bus.cart = last.split.cart
        /\ bus.iflag = last.split.iflag
        /\ bus.io = last.split.io
        /\ ~last.split.cgb_hdma_active /\ ~bus.cgb_hdma_active /\ bus.vram = last.split.vram =>
              bus = [last.split EXCEPT !.ppu.framebuffer = bus.ppu.framebuffer]

----------------------------------------------------------------------------
(* SpecLoad: the cartridge of SpecSave, on which a save file is loaded     *)
(* again between CPU writes: a well-formed file, one whose trailer         *)
(* announces 9 payload bytes and holds 5, and one whose payload is 4 bytes *)
(* long.  The RAM image of every file has 7 as its first byte.             *)

LoadTrailers ==
    {SAVE_MAGIC \o to_le_bytes(9) \o <<30, 0, 0, 0, 0>> \o to_le_bytes(0),
     SAVE_MAGIC \o to_le_bytes(9) \o <<30, 0, 0, 0, 0>>,
     SAVE_MAGIC \o to_le_bytes(4) \o <<30, 0, 0, 0>>}

LoadRam == [Mbc3Cart.ram EXCEPT !.mem = Put(@, 0, 7)]

(* Bus::load_from_path on an existing file.                                *)
LoadSave(trailer) ==
    LET loaded(r) ==
            /\ bus' = [bus EXCEPT !.cart = r.cart]
            /\ last' = [op |-> "load", addr |-> -1, val |-> Len(trailer), pre |-> bus.cart,
                        ok |-> r.ok]
    IN /\ hist.ops < MaxSaveOps
       /\ loaded(load_from_path(bus.cart, extend_from_slice(LoadRam, trailer)))
       /\ hist' = [ops |-> hist.ops + 1]
       /\ UNCHANGED cpu

NextLoad ==
    \/ \E w \in SaveWrites : SaveWrite(w[1], w[2])
    \/ \E trailer \in LoadTrailers : LoadSave(trailer)

SpecLoad == InitSave /\ [][NextLoad]_vars

(* C40: a load that returns an error leaves the cartridge's RAM and its    *)
(* mapper and RTC state as they were before the load.                      *)
C40_LoadErrorKeepsCart ==
    (last.op = "load" /\ ~last.ok) => bus.cart = last.pre

(* A load that returns an error leaves the mapper and RTC state as they    *)
(* were and the RAM as the file's RAM image; a load that succeeds on a     *)
(* payload sets the live clock from it and drops the latched copy.         *)
LoadErrorKeepsMapper ==
    last.op = "load" =>
        /\ bus.cart.ram = LoadRam
        /\ ~last.ok => bus.cart.mbc = last.pre.mbc
        /\ last.ok => bus.cart.mbc.rtc_live.sec = 30 /\ ~bus.cart.mbc.rtc_latched.some

====
